---- MODULE Spec2Model ----
(***************************************************************************)
(* Verification model of the korektor corpus tooling:                      *)
(*   corpus/index_builder.py   morphology aggregation, example selection,  *)
(*                             SQLite index construction                   *)
(*   backend/main.py           get_examples_from_corpus (index reader)     *)
(*   build_examples_stream.py  WikiHandler, merge_and_clean, main script   *)
(*                                                                         *)
(* Python values are modelled as follows.                                  *)
(*   dict / defaultdict / Counter : a sequence of [k, v] records in        *)
(*       insertion order (Python dicts iterate in insertion order)         *)
(*   None / a value               : <<>> / <<value>>                       *)
(*   str                          : where only identity matters, a TLA+    *)
(*       string; where the code inspects characters, a sequence of         *)
(*       one-character tokens                                              *)
(***************************************************************************)
EXTENDS Integers, Sequences, FiniteSets, TLC

VARIABLES
    \* ---- corpus/index_builder.py: process_morphology_data ----
    stream,         \* the well-formed lines of morphology_file read so far
    wordforms,      \* the defaultdict `wordforms` (ordered dict form -> record)
    \* ---- corpus/index_builder.py: create_sqlite_database, main ----
    sentences,      \* the dict returned by load_sentences (ordered dict id -> text)
    pending,        \* forms of wordforms_data.items() not yet visited (lines 176-204)
    insert_data,    \* the list `insert_data`
    db_file,        \* the store file at db_file / CORPUS_DB as committed on disk
    tx_rows,        \* rows inserted in the open, uncommitted transaction
    build_pc,       \* position of create_sqlite_database
    published,      \* the store as it was when the rebuild started
    reader_saw,     \* what get_examples_from_corpus found at CORPUS_DB
    \* ---- build_examples_stream.py: __main__, merge_and_clean ----
    examples_file,  \* content of OUTPUT_FILE (examples.json); <<>> when absent
    existing_examples, \* the dict object returned by load_existing_examples
    loaded,         \* value of existing_examples when it was loaded
    collected,      \* the list `collected`
    url_idx,        \* index into DUMP_URLS of the loop at line 173
    sax,            \* the SAX parser feeding the handler: position and pages read
    final,          \* the dict `final`
    main_pc,        \* position of the script
    run,            \* number of the current run of the script
    dump_log,       \* history: for every URL tried, how its processing ended
    \* ---- build_examples_stream.py: WikiHandler ----
    h,              \* the WikiHandler object's fields
    \* ---- corpus/index_builder.py: main ----
    pipe_pc,        \* position of main()
    in_files,       \* which of sentences.jsonl / morphology_data.jsonl exist
    sent_lines,     \* every line of sentences_file read so far
    morph_lines,    \* every line of morphology_file read so far
    export_file,    \* content of index_export.jsonl; <<>> when absent
    stats_file,     \* content of index_stats.json; <<>> when absent
    \* ---- backend/main.py: log_suspect_words ----
    collected_file, \* content of COLLECTED_DIACRITICS_FILE; <<>> when absent
    collected_lock, \* the thread holding _collected_lock, 0 when it is free
    thr,            \* for every thread: position in log_suspect_words and its locals
    log_hist        \* history: counts at the start, occurrences passed in, errors

vars == << stream, wordforms, sentences, pending, insert_data, db_file, tx_rows,
           build_pc, published, reader_saw, examples_file, existing_examples,
           loaded, collected, url_idx, sax, final, main_pc, run, dump_log, h,
           pipe_pc, in_files, sent_lines, morph_lines, export_file, stats_file,
           collected_file, collected_lock, thr, log_hist >>

aggVars   == << stream, wordforms >>
buildVars == << sentences, pending, insert_data, db_file, tx_rows, build_pc,
                published, reader_saw >>
mainVars  == << examples_file, existing_examples, loaded, collected, url_idx,
                final, main_pc, run, dump_log >>
wikiVars  == << sax, h >>
pipeVars  == << pipe_pc, in_files, sent_lines, morph_lines, export_file, stats_file >>
logVars   == << collected_file, collected_lock, thr, log_hist >>

-----------------------------------------------------------------------------
(* Generic helpers *)

None == << >>
Some(x) == << x >>

Range(s) == { s[i] : i \in 1..Len(s) }

Min(a, b) == IF a <= b THEN a ELSE b

\* ordered dict: sequence of [k |-> key, v |-> value]
DictKeys(d) == { d[i].k : i \in 1..Len(d) }
DictHas(d, key) == \E i \in 1..Len(d) : d[i].k = key
DictIdx(d, key) == CHOOSE i \in 1..Len(d) : d[i].k = key
DictGet(d, key) == d[DictIdx(d, key)].v
DictPut(d, key, val) ==
    IF DictHas(d, key)
    THEN [ i \in 1..Len(d) |-> IF d[i].k = key THEN [k |-> key, v |-> val] ELSE d[i] ]
    ELSE Append(d, [k |-> key, v |-> val])

-----------------------------------------------------------------------------
(* corpus/index_builder.py: process_morphology_data *)

\* Bounds of the token streams explored.
MaxTokens == 2      \* leading lines whose fields are all chosen freely
MaxStream == 12     \* total number of lines read
NumSids   == 13     \* distinct sentence ids available to the stream

\* `if len(wf['sentence_ids']) < 10`
ReservoirCap == 10

\* Surface forms: two words and a whitespace-only form.
Forms == { "dom", "su", " " }
\* form.strip(): the whitespace-only form strips to the empty string.
FormStrip(form) == IF form = " " THEN "" ELSE form
\* (lemma, upos) analyses a tagger attaches to a token; lemma may be ''.
Analyses == { << "dom", "NOUN" >>, << "", "VERB" >> }
Feats == { "", "Number=Plur" }

Token(f, a, ft, sid) ==
    [ form |-> f, lemma |-> a[1], upos |-> a[2], feats |-> ft, sentence_id |-> sid ]

\* the defaultdict factory of lines 38-44
NewWordform ==
    [ lemma |-> None, upos |-> None, feats_counter |-> << >>,
      frequency |-> 0, sentence_ids |-> {} ]

\* Counter[key] += 1
CounterInc(c, key) ==
    IF DictHas(c, key) THEN DictPut(c, key, DictGet(c, key) + 1)
                       ELSE DictPut(c, key, 1)

\* Variants of the loop body used to test what the properties depend on.
morphology_step_lastwins(wfs, data) ==
    IF FormStrip(data.form) = "" THEN wfs
    ELSE LET wf0 == IF DictHas(wfs, data.form) THEN DictGet(wfs, data.form)
                                               ELSE NewWordform
             wf1 == [ wf0 EXCEPT !.lemma = Some(data.lemma), !.upos = Some(data.upos) ]
             wf2 == [ wf1 EXCEPT !.feats_counter = CounterInc(@, data.feats) ]
             wf3 == [ wf2 EXCEPT !.frequency = @ + 1 ]
             wf4 == IF Cardinality(wf3.sentence_ids) < ReservoirCap
                    THEN [ wf3 EXCEPT !.sentence_ids = @ \cup { data.sentence_id } ]
                    ELSE wf3
         IN  DictPut(wfs, data.form, wf4)

morphology_step_countkept(wfs, data) ==
    IF FormStrip(data.form) = "" THEN wfs
    ELSE LET wf0 == IF DictHas(wfs, data.form) THEN DictGet(wfs, data.form)
                                               ELSE NewWordform
             wf1 == IF wf0.lemma = None
                    THEN [ wf0 EXCEPT !.lemma = Some(data.lemma), !.upos = Some(data.upos) ]
                    ELSE wf0
             wf2 == [ wf1 EXCEPT !.feats_counter = CounterInc(@, data.feats) ]
             wf4 == IF Cardinality(wf2.sentence_ids) < ReservoirCap
                    THEN [ wf2 EXCEPT !.sentence_ids = @ \cup { data.sentence_id },
                                      !.frequency = @ + 1 ]
                    ELSE wf2
         IN  DictPut(wfs, data.form, wf4)

morphology_step_offbyone(wfs, data) ==
    IF FormStrip(data.form) = "" THEN wfs
    ELSE LET wf0 == IF DictHas(wfs, data.form) THEN DictGet(wfs, data.form)
                                               ELSE NewWordform
             wf1 == IF wf0.lemma = None
                    THEN [ wf0 EXCEPT !.lemma = Some(data.lemma), !.upos = Some(data.upos) ]
                    ELSE wf0
             wf2 == [ wf1 EXCEPT !.feats_counter = CounterInc(@, data.feats) ]
             wf3 == [ wf2 EXCEPT !.frequency = @ + 1 ]
             wf4 == IF Cardinality(wf3.sentence_ids) <= ReservoirCap
                    THEN [ wf3 EXCEPT !.sentence_ids = @ \cup { data.sentence_id } ]
                    ELSE wf3
         IN  DictPut(wfs, data.form, wf4)

morphology_step_skipempty(wfs, data) ==
    IF FormStrip(data.form) = "" THEN wfs
    ELSE LET wf0 == IF DictHas(wfs, data.form) THEN DictGet(wfs, data.form)
                                               ELSE NewWordform
             wf1 == IF wf0.lemma = None
                    THEN [ wf0 EXCEPT !.lemma = Some(data.lemma), !.upos = Some(data.upos) ]
                    ELSE wf0
             wf2 == IF data.feats = "" THEN wf1
                    ELSE [ wf1 EXCEPT !.feats_counter = CounterInc(@, data.feats) ]
             wf3 == [ wf2 EXCEPT !.frequency = @ + 1 ]
             wf4 == IF Cardinality(wf3.sentence_ids) < ReservoirCap
                    THEN [ wf3 EXCEPT !.sentence_ids = @ \cup { data.sentence_id } ]
                    ELSE wf3
         IN  DictPut(wfs, data.form, wf4)

\* Lines 52-84: the body of the loop for one parsed line `data`.
morphology_step(wfs, data) ==
    IF FormStrip(data.form) = "" THEN wfs                       \* lines 60-61
    ELSE LET wf0 == IF DictHas(wfs, data.form) THEN DictGet(wfs, data.form)
                                               ELSE NewWordform  \* line 64
             wf1 == IF wf0.lemma = None                          \* lines 67-69
                    THEN [ wf0 EXCEPT !.lemma = Some(data.lemma), !.upos = Some(data.upos) ]
                    ELSE wf0
             \* lines 72-75: both branches count the string feats ('' when empty)
             wf2 == [ wf1 EXCEPT !.feats_counter = CounterInc(@, data.feats) ]
             wf3 == [ wf2 EXCEPT !.frequency = @ + 1 ]           \* line 78
             wf4 == IF Cardinality(wf3.sentence_ids) < ReservoirCap   \* lines 81-82
                    THEN [ wf3 EXCEPT !.sentence_ids = @ \cup { data.sentence_id } ]
                    ELSE wf3
         IN  DictPut(wfs, data.form, wf4)

\* Sentence ids of the lines read so far.
UsedSids(s) == { s[i].sentence_id : i \in 1..Len(s) }

\* A sentence id not seen yet.  Ids are handed out alternately from the low
\* and the high end of 1..NumSids, so first-seen order is not numeric order.
FreshSid(s) ==
    LET n == Cardinality(UsedSids(s))
    IN  IF n % 2 = 0 THEN 1 + (n \div 2) ELSE NumSids - ((n - 1) \div 2)

SidChoices(s) ==
    { FreshSid(s) } \cup (IF Len(s) > 0 THEN { s[Len(s)].sentence_id } ELSE {})

\* One of the first MaxTokens lines: any form, analysis, features; the sentence
\* is a new one or the sentence of the previous line.
ProcessLine ==
    /\ Len(stream) < MaxTokens
    /\ Cardinality(UsedSids(stream)) < NumSids
    /\ \E f \in Forms, a \in Analyses, ft \in Feats, sid \in SidChoices(stream) :
         LET data == Token(f, a, ft, sid)
         IN  /\ stream' = Append(stream, data)
             /\ wordforms' = morphology_step(wordforms, data)
    /\ UNCHANGED << logVars, pipeVars, buildVars, mainVars, wikiVars >>

\* A further line for the word "dom", in a sentence not seen before.
ProcessBulk ==
    /\ Len(stream) < MaxStream
    /\ Cardinality(UsedSids(stream)) < NumSids
    /\ LET data == Token("dom", << "dom", "NOUN" >>, "", FreshSid(stream))
       IN  /\ stream' = Append(stream, data)
           /\ wordforms' = morphology_step(wordforms, data)
    /\ UNCHANGED << logVars, pipeVars, buildVars, mainVars, wikiVars >>

\* Values of the variables a specification does not use.
IdleAgg == stream = << >> /\ wordforms = << >>
IdleBuild ==
    /\ sentences = << >> /\ pending = << >> /\ insert_data = << >>
    /\ db_file = << >> /\ tx_rows = << >> /\ build_pc = "idle"
    /\ published = << >> /\ reader_saw = << >>
IdleMain ==
    /\ examples_file = << >> /\ existing_examples = << >> /\ loaded = << >>
    /\ collected = << >> /\ url_idx = 0
    /\ final = << >> /\ main_pc = "idle" /\ run = 0 /\ dump_log = << >>
IdleWiki == h = << >> /\ sax = << >>
IdlePipe ==
    /\ pipe_pc = "idle" /\ in_files = << >> /\ sent_lines = << >>
    /\ morph_lines = << >> /\ export_file = << >> /\ stats_file = << >>
IdleLog ==
    /\ collected_file = << >> /\ collected_lock = 0 /\ thr = << >> /\ log_hist = << >>

InitAgg == IdleAgg /\ IdleBuild /\ IdleMain /\ IdleWiki /\ IdlePipe /\ IdleLog
NextAgg == ProcessLine \/ ProcessBulk
SpecAgg == InitAgg /\ [][NextAgg]_vars

\* ---- properties of process_morphology_data ----

\* Positions of the lines of s whose surface form is f.
FormIdx(s, f) == { i \in 1..Len(s) : s[i].form = f }
MinOf(S) == CHOOSE x \in S : \A y \in S : x <= y

\* The first n distinct sentence ids among the lines of s with form f.
RECURSIVE FirstDistinct(_, _, _, _)
FirstDistinct(s, f, n, acc) ==
    IF s = << >> THEN acc
    ELSE LET t == Head(s)
             acc2 == IF t.form = f /\ Cardinality(acc) < n
                     THEN acc \cup { t.sentence_id } ELSE acc
         IN  FirstDistinct(Tail(s), f, n, acc2)

DistinctSids(s, f) == { s[i].sentence_id : i \in FormIdx(s, f) }

\* C4: the lemma and part of speech of every wordform record are those of the
\* first line of the stream with that surface form.
C4_FirstSeenWins ==
    \A i \in 1..Len(wordforms) :
        LET f == wordforms[i].k
            first == stream[MinOf(FormIdx(stream, f))]
        IN  /\ FormIdx(stream, f) # {}
            /\ wordforms[i].v.lemma = Some(first.lemma)
            /\ wordforms[i].v.upos = Some(first.upos)

\* C4 witness: a form read twice, the later line carrying another lemma and
\* part of speech than the first.
C4_Witness ==
    \E i \in 1..Len(wordforms) :
        \E p, q \in FormIdx(stream, wordforms[i].k) :
            /\ p < q
            /\ stream[p].lemma # stream[q].lemma
            /\ stream[p].upos # stream[q].upos
            /\ p = MinOf(FormIdx(stream, wordforms[i].k))

\* C5: the frequency of every wordform is the number of lines read with that
\* surface form, and a non-blank form that was read has a record.
C5_FrequencyExact ==
    /\ \A i \in 1..Len(wordforms) :
          wordforms[i].v.frequency = Cardinality(FormIdx(stream, wordforms[i].k))
    /\ \A j \in 1..Len(stream) :
          FormStrip(stream[j].form) # "" => DictHas(wordforms, stream[j].form)

\* C5 witness: the reservoir of a wordform is full and the sentence id of the
\* last line read for it was dropped.
C5_Witness ==
    /\ Len(stream) > ReservoirCap
    /\ DictHas(wordforms, stream[Len(stream)].form)
    /\ LET wf == DictGet(wordforms, stream[Len(stream)].form)
       IN  /\ Cardinality(wf.sentence_ids) = ReservoirCap
           /\ stream[Len(stream)].sentence_id \notin wf.sentence_ids
           /\ wf.frequency > ReservoirCap

\* C6: the reservoir of every wordform never holds more than 10 ids and is the
\* set of the first 10 distinct sentence ids read for that wordform.
C6_ReservoirFirstTen ==
    \A i \in 1..Len(wordforms) :
        /\ Cardinality(wordforms[i].v.sentence_ids) <= 10
        /\ wordforms[i].v.sentence_ids = FirstDistinct(stream, wordforms[i].k, 10, {})

\* C6 witness: more than 10 distinct sentences contain the wordform.
C6_Witness ==
    \E i \in 1..Len(wordforms) :
        /\ Cardinality(DistinctSids(stream, wordforms[i].k)) > 10
        /\ Cardinality(wordforms[i].v.sentence_ids) = 10

\* sum(counter.values())
RECURSIVE SumCounts(_)
SumCounts(c) == IF c = << >> THEN 0 ELSE Head(c).v + SumCounts(Tail(c))

\* C28: for every wordform record the counts of its feature table sum to its
\* frequency, its frequency is at least 1 and at least the size of its
\* reservoir; and no step removes a record or lowers its frequency.
C28_CountersConsistent ==
    /\ [](\A i \in 1..Len(wordforms) :
            LET wf == wordforms[i].v
            IN  /\ SumCounts(wf.feats_counter) = wf.frequency
                /\ wf.frequency >= 1
                /\ wf.frequency >= Cardinality(wf.sentence_ids))
    /\ [][\A i \in 1..Len(wordforms) :
            /\ DictHas(wordforms', wordforms[i].k)
            /\ DictGet(wordforms', wordforms[i].k).frequency >= wordforms[i].v.frequency]_vars

\* C28 witness: a record with two feature strings counted, of which the empty
\* one, and more occurrences than reservoir ids, next to a second record.
C28_Witness ==
    /\ Len(wordforms) >= 2
    /\ \E i \in 1..Len(wordforms) :
          LET wf == wordforms[i].v
          IN  /\ Len(wf.feats_counter) = 2
              /\ DictHas(wf.feats_counter, "")
              /\ wf.frequency > Cardinality(wf.sentence_ids)
              /\ wf.frequency >= 3

-----------------------------------------------------------------------------
(* corpus/index_builder.py: sentence texts and select_example_sentences *)

\* `max_examples=5` and the length filter `len(text) > 10`
max_examples == 5
MinTextLen   == 10

\* A sentence text: `pre`/`post` whitespace characters around `len` other
\* characters; `eq`: the stripped text starts with '='; `http`: it contains
\* "http"; `id` names the stripped content.  Two stripped texts are the same
\* string exactly when they are the same record.
TextLen(t)   == t.pre + t.len + t.post
TextStrip(t) == [ t EXCEPT !.pre = 0, !.post = 0 ]

\* Sample texts of the sentence table, by kind; n distinguishes contents.
SampleText(kind, n) ==
    CASE kind = "good"  -> [ id |-> << "good", n >>, pre |-> 1, len |-> MinTextLen + 1,
                             post |-> 1, eq |-> FALSE, http |-> FALSE ]
      [] kind = "dup"   -> [ id |-> << "good", 0 >>, pre |-> 0, len |-> MinTextLen + 1,
                             post |-> 0, eq |-> FALSE, http |-> FALSE ]
      [] kind = "ten"   -> [ id |-> << "ten", n >>, pre |-> 0, len |-> MinTextLen,
                             post |-> 1, eq |-> FALSE, http |-> FALSE ]
      [] kind = "blank" -> [ id |-> << "", 0 >>, pre |-> 2, len |-> 0,
                             post |-> 0, eq |-> FALSE, http |-> FALSE ]
      [] kind = "eq"    -> [ id |-> << "eq", n >>, pre |-> 0, len |-> MinTextLen + 2,
                             post |-> 0, eq |-> TRUE, http |-> FALSE ]
      [] kind = "http"  -> [ id |-> << "http", n >>, pre |-> 0, len |-> MinTextLen + 5,
                             post |-> 0, eq |-> FALSE, http |-> TRUE ]
      \* a text holding one of the letters of _filter_slovak_only
      [] kind = "czech" -> [ id |-> << "czech", n >>, pre |-> 0, len |-> MinTextLen + 3,
                             post |-> 0, eq |-> FALSE, http |-> FALSE ]
      \* a text with two spaces between two of its words
      [] kind = "runs"  -> [ id |-> << "runs", n >>, pre |-> 0, len |-> MinTextLen + 4,
                             post |-> 0, eq |-> FALSE, http |-> FALSE ]

\* f"Пример с '{wordform}' недоступен." (line 185)
Placeholder(wordform) ==
    [ id |-> << "placeholder", wordform >>, pre |-> 0, len |-> 22,
      post |-> 0, eq |-> FALSE, http |-> FALSE ]

\* [ f(x) for x in s ]
RECURSIVE StrippedTexts(_, _)
StrippedTexts(ids, sents) ==
    IF ids = << >> THEN << >>
    ELSE << TextStrip(DictGet(sents, Head(ids))) >> \o StrippedTexts(Tail(ids), sents)

\* Lines 100-102: the stripped texts of the ids found in `sentences`, in
\* iteration order.
ResolvedTexts(ids, sents) ==
    LET known(sid) == DictHas(sents, sid)
    IN  StrippedTexts(SelectSeq(ids, known), sents)

\* Line 104.
PassesFilter(text) ==
    TextLen(text) > MinTextLen /\ ~text.eq /\ ~text.http

\* Variant without the second loop of lines 107-112.
AvailableSentences_nofallback(ids, sents) ==
    SelectSeq(ResolvedTexts(ids, sents), PassesFilter)

\* Lines 98-112: `available_sentences` before the selection.
AvailableSentences(ids, sents) ==
    LET resolved == ResolvedTexts(ids, sents)
        good == SelectSeq(resolved, PassesFilter)
    IN  IF good # << >> THEN good
        ELSE IF resolved # << >> THEN << resolved[1] >>     \* lines 107-112
        ELSE << >>

\* Lines 119-127: first, last, middle.
DiversePicks(avail) ==
    LET n == Len(avail)
    IN  << avail[1] >>
        \o (IF n > 1 THEN << avail[n] >> ELSE << >>)
        \o (IF n > 2 THEN << avail[(n \div 2) + 1] >> ELSE << >>)

\* Line 130.
Remaining(avail) ==
    LET picked == Range(DiversePicks(avail))
        unpicked(s) == s \notin picked
    IN  SelectSeq(avail, unpicked)

\* Lines 133-134: pop from the end of the shuffled list until max_examples.
RECURSIVE PopFill(_, _, _)
PopFill(selected, rest, maxn) ==
    IF Len(selected) < maxn /\ rest # << >>
    THEN PopFill(Append(selected, rest[Len(rest)]), SubSeq(rest, 1, Len(rest) - 1), maxn)
    ELSE selected

\* The random.shuffle outcomes of a list of length n: the permutations of its
\* indices.
ShuffleOutcomes(n) == Permutations(1..n)

\* Variant that takes first, last and middle whatever the size of the list.
select_example_sentences_alwayspick(ids, sents, maxn, perm) ==
    LET avail == AvailableSentences(ids, sents)
    IN  IF avail = << >> THEN << >>
        ELSE LET selected == PopFill(DiversePicks(avail), Remaining(avail), maxn)
             IN  SubSeq(selected, 1, Min(maxn, Len(selected)))

\* select_example_sentences, lines 96-136.  `ids` is sentence_ids in the order
\* the set is iterated; `perm` is the outcome of random.shuffle.
select_example_sentences(ids, sents, maxn, perm) ==
    LET avail == AvailableSentences(ids, sents)
    IN  IF Len(avail) <= maxn THEN avail
        ELSE LET rest == Remaining(avail)
                 shuffled == [ i \in 1..Len(rest) |-> rest[perm[i]] ]
                 selected == PopFill(DiversePicks(avail), shuffled, maxn)
             IN  SubSeq(selected, 1, Min(maxn, Len(selected)))

\* Number of shuffled elements for the given input (0 when no shuffle happens).
ShuffleLen(ids, sents, maxn) ==
    LET avail == AvailableSentences(ids, sents)
    IN  IF Len(avail) <= maxn THEN 0 ELSE Len(Remaining(avail))

-----------------------------------------------------------------------------
(* corpus/index_builder.py: create_sqlite_database *)

\* Variant taking the last key with the maximal count.
MostCommonFeats_lastmax(counter) ==
    IF counter = << >> THEN ""
    ELSE LET best == CHOOSE i \in 1..Len(counter) :
                        /\ \A j \in 1..Len(counter) : counter[j].v <= counter[i].v
                        /\ \A j \in (i + 1)..Len(counter) : counter[j].v < counter[i].v
         IN  counter[best].k

\* Counter.most_common(1)[0][0]: the first key, in insertion order, with the
\* maximal count; '' for an empty counter (lines 178, 247).
MostCommonFeats(counter) ==
    IF counter = << >> THEN ""
    ELSE LET best == CHOOSE i \in 1..Len(counter) :
                        /\ \A j \in 1..Len(counter) : counter[j].v <= counter[i].v
                        /\ \A j \in 1..(i - 1) : counter[j].v < counter[i].v
         IN  counter[best].k

\* The orders in which the set sentence_ids may be iterated.  Set iteration
\* order is not specified; ascending and descending order are explored.
RECURSIVE Ascending(_)
Ascending(S) ==
    IF S = {} THEN << >>
    ELSE LET m == CHOOSE x \in S : \A y \in S : x <= y
         IN  << m >> \o Ascending(S \ { m })
Reverse(s) == [ i \in 1..Len(s) |-> s[Len(s) + 1 - i] ]
IterOrders(S) == { Ascending(S), Reverse(Ascending(S)) }

\* json.dumps(example_sentences, ensure_ascii=False) / json.loads
JsonDumps(list) == [ json |-> list ]
JsonLoads(text) == text.json

\* Variant of the row construction without the substitution of lines 183-185.
insert_row_noplaceholder(wordform, data, examples) ==
    [ wordform |-> wordform, lemma |-> data.lemma, upos |-> data.upos,
      feats |-> MostCommonFeats(data.feats_counter), frequency |-> data.frequency,
      sentences |-> JsonDumps(examples) ]

\* Lines 178-197: the tuple appended to insert_data for one wordform, given
\* the list returned by select_example_sentences.
insert_row(wordform, data, examples) ==
    LET example_sentences == IF examples = << >> THEN << Placeholder(wordform) >>
                             ELSE examples                       \* lines 183-185
    IN  [ wordform |-> wordform, lemma |-> data.lemma, upos |-> data.upos,
          feats |-> MostCommonFeats(data.feats_counter), frequency |-> data.frequency,
          sentences |-> JsonDumps(example_sentences) ]

\* Lines 176-204: one iteration of the loop over wordforms_data.items().
PrepareRow ==
    /\ build_pc = "prepare"
    /\ pending # << >>
    /\ LET wordform == Head(pending)
           data == DictGet(wordforms, wordform)
       IN  \E ids \in IterOrders(data.sentence_ids) :
             \E perm \in ShuffleOutcomes(ShuffleLen(ids, sentences, max_examples)) :
               insert_data' = Append(insert_data,
                   insert_row(wordform, data,
                       select_example_sentences(ids, sentences, max_examples, perm)))
    /\ pending' = Tail(pending)
    /\ UNCHANGED << logVars, pipeVars, aggVars, sentences, db_file, tx_rows, build_pc, published,
                    reader_saw, mainVars, wikiVars >>

\* The store file: `table`: the table wordforms exists; `rows`: its committed
\* rows in rowid order; `indexes`: the four indexes exist.
EmptyFile == [ table |-> FALSE, rows |-> << >>, indexes |-> FALSE ]
CompleteStore(rows) == [ table |-> TRUE, rows |-> rows, indexes |-> TRUE ]

Keys(d) == [ i \in 1..Len(d) |-> d[i].k ]

\* process_morphology_data over a whole stream of well-formed lines.
RECURSIVE Aggregate(_, _)
Aggregate(wfs, s) ==
    IF s = << >> THEN wfs ELSE Aggregate(morphology_step(wfs, Head(s)), Tail(s))

\* Lines 143-144: `if os.path.exists(db_file): os.remove(db_file)`.
RemoveExisting ==
    /\ build_pc = "start"
    /\ db_file' = None
    /\ build_pc' = "removed"
    /\ UNCHANGED << logVars, pipeVars, aggVars, sentences, pending, insert_data, tx_rows, published,
                    reader_saw, mainVars, wikiVars >>

\* Lines 146-150: sqlite3.connect creates the file when it does not exist.
Connect ==
    /\ build_pc = "removed"
    /\ db_file' = IF db_file = None THEN Some(EmptyFile) ELSE db_file
    /\ build_pc' = "connected"
    /\ UNCHANGED << logVars, pipeVars, aggVars, sentences, pending, insert_data, tx_rows, published,
                    reader_saw, mainVars, wikiVars >>

\* Lines 153-172: CREATE TABLE runs outside any transaction and is durable at
\* once; insert_data starts empty.
CreateTable ==
    /\ build_pc = "connected"
    /\ db_file' = Some([ db_file[1] EXCEPT !.table = TRUE ])
    /\ pending' = Keys(wordforms)
    /\ insert_data' = << >>
    /\ build_pc' = "prepare"
    /\ UNCHANGED << logVars, pipeVars, aggVars, sentences, tx_rows, published, reader_saw, mainVars, wikiVars >>

\* Line 209: BEGIN TRANSACTION, once every wordform has been visited.
BeginTransaction ==
    /\ build_pc = "prepare"
    /\ pending = << >>
    /\ tx_rows' = << >>
    /\ build_pc' = "inserting"
    /\ UNCHANGED << logVars, pipeVars, aggVars, sentences, pending, insert_data, db_file, published,
                    reader_saw, mainVars, wikiVars >>

\* Lines 210-213: executemany inserts the next row inside the transaction.
InsertRow ==
    /\ build_pc = "inserting"
    /\ Len(tx_rows) < Len(insert_data)
    /\ tx_rows' = Append(tx_rows, insert_data[Len(tx_rows) + 1])
    /\ UNCHANGED << logVars, pipeVars, aggVars, sentences, pending, insert_data, db_file, build_pc,
                    published, reader_saw, mainVars, wikiVars >>

\* Line 214: commit makes all rows of the transaction visible together.
Commit ==
    /\ build_pc = "inserting"
    /\ Len(tx_rows) = Len(insert_data)
    /\ db_file' = Some([ db_file[1] EXCEPT !.rows = tx_rows ])
    /\ tx_rows' = << >>
    /\ build_pc' = "committed"
    /\ UNCHANGED << logVars, pipeVars, aggVars, sentences, pending, insert_data, published,
                    reader_saw, mainVars, wikiVars >>

\* Lines 218-228: the four CREATE INDEX statements, VACUUM, ANALYZE, close.
CreateIndexes ==
    /\ build_pc = "committed"
    /\ db_file' = Some([ db_file[1] EXCEPT !.indexes = TRUE ])
    /\ build_pc' = "closed"
    /\ UNCHANGED << logVars, pipeVars, aggVars, sentences, pending, insert_data, tx_rows, published,
                    reader_saw, mainVars, wikiVars >>

\* Lines 231-238: the statistics; the average divides by total_wordforms, so
\* a build of zero wordforms raises ZeroDivisionError here.
FinishStats ==
    /\ build_pc = "closed"
    /\ build_pc' = IF Len(insert_data) = 0 THEN "failed" ELSE "done"
    /\ UNCHANGED << logVars, pipeVars, aggVars, sentences, pending, insert_data, db_file, tx_rows,
                    published, reader_saw, mainVars, wikiVars >>

\* An exception (I/O error, disk full, constraint violation) leaves
\* create_sqlite_database at any statement; the open transaction is never
\* committed.
BuildFails ==
    /\ build_pc \in { "start", "removed", "connected", "prepare", "inserting", "committed" }
    /\ build_pc' = "failed"
    /\ tx_rows' = << >>
    /\ UNCHANGED << logVars, pipeVars, aggVars, sentences, pending, insert_data, db_file, published,
                    reader_saw, mainVars, wikiVars >>

-----------------------------------------------------------------------------
(* backend/main.py: get_examples_from_corpus *)

\* The words looked up and the limits passed.
LookupWords  == { "dom", "DOM", "su", "pes", "" }
LookupLimits == { 0, 1, 3 }

\* COLLATE NOCASE: equality after folding the ASCII upper-case letters.
NoCaseFold(str) == IF str = "DOM" THEN "dom" ELSE str
NoCaseEq(a, b) == NoCaseFold(a) = NoCaseFold(b)

\* The WHERE clause of lines 23-26.
RowMatches(row, word) ==
    NoCaseEq(row.wordform, word) \/ NoCaseEq(row.lemma[1], word)

\* Line 34: re.sub(r"\s+", " ", s).strip() collapses every run of whitespace
\* and strips the ends.
NormalizeSpaces(t) ==
    IF t.id[1] = "runs"
    THEN [ t EXCEPT !.id = << "runs_collapsed", t.id[2] >>, !.pre = 0, !.post = 0,
                    !.len = @ - 1 ]
    ELSE TextStrip(t)

\* _filter_slovak_only, lines 15-17.
FilterSlovakOnly(t) == t.id[1] # "czech"

\* Lines 32-39: the loop over the example list.
RECURSIVE LookupLoop(_, _, _)
LookupLoop(lines, limit, out) ==
    IF lines = << >> THEN out
    ELSE LET text == NormalizeSpaces(Head(lines))
             out2 == IF TextLen(text) > 0 /\ FilterSlovakOnly(text)
                     THEN Append(out, text) ELSE out                \* lines 35-36
         IN  IF Len(out2) >= limit THEN out2                         \* lines 37-38
             ELSE LookupLoop(Tail(lines), limit, out2)

\* The lists get_examples_from_corpus may return for the store `file`
\* (<<>> when there is no file).  Without the table the SELECT raises and the
\* except clause returns []; LIMIT 1 without ORDER BY yields any matching row.
LookupResults(file, word, limit) ==
    IF file = None \/ ~file[1].table THEN { << >> }                 \* lines 40-42
    ELSE LET hits == { i \in 1..Len(file[1].rows) : RowMatches(file[1].rows[i], word) }
         IN  IF hits = {} THEN { << >> }                             \* lines 29-30
             ELSE { LookupLoop(JsonLoads(file[1].rows[i].sentences), limit, << >>) :
                      i \in hits }

\* get_examples_from_corpus, lines 19-42: connect (which creates an empty file
\* when none exists) and run the SELECT against the committed state of the
\* file.  reader_saw records what the call found (no file, a file without
\* the table, or the committed rows), its arguments and the list returned.
Lookup ==
    /\ build_pc # "idle"
    /\ \E word \in LookupWords, limit \in LookupLimits :
         \E out \in LookupResults(db_file, word, limit) :
           reader_saw' = Some(
             [ kind |-> IF db_file = None THEN "missing"
                        ELSE IF ~db_file[1].table THEN "no_table" ELSE "rows",
               rows |-> IF db_file = None THEN << >> ELSE db_file[1].rows,
               word |-> word, limit |-> limit, out |-> out ])
    /\ db_file' = IF db_file = None THEN Some(EmptyFile) ELSE db_file
    /\ UNCHANGED << logVars, pipeVars, aggVars, sentences, pending, insert_data, tx_rows, build_pc,
                    published, mainVars, wikiVars >>

-----------------------------------------------------------------------------
(* Inputs of the index build *)

\* Bound: number of sentence ids of the sentence tables explored.
NumSents == 6
\* Bound: leading ids of a table whose text is of any kind.
NumFree  == 2

TextKinds == { "missing", "good", "dup", "ten", "blank", "eq", "http" }
RestKinds == { "missing", "good", "dup" }

\* The dict built by load_sentences from a file holding, for each id whose
\* kind is not "missing", one line, in ascending id order.
RECURSIVE TableOf(_, _)
TableOf(kinds, n) ==
    IF n = 0 THEN << >>
    ELSE TableOf(kinds, n - 1)
         \o (IF kinds[n] = "missing" THEN << >>
             ELSE << [ k |-> n, v |-> SampleText(kinds[n], n) ] >>)

RowTables ==
    { TableOf(kinds, NumSents) :
        kinds \in { kf \in [ 1..NumSents -> TextKinds ] :
                      \A i \in (NumFree + 1)..NumSents : kf[i] \in RestKinds } }

DomToken(sid) == Token("dom", << "dom", "NOUN" >>, "", sid)
SuToken(sid)  == Token("su", << "", "VERB" >>, "Number=Plur", sid)

\* Streams whose word "dom" occurs in every sentence 1..NumSents.
RowStreams ==
    LET doms == [ i \in 1..NumSents |-> DomToken(i) ]
    IN  { doms, << SuToken(1) >> \o doms }

InitRows ==
    /\ stream \in RowStreams
    /\ wordforms = Aggregate(<< >>, stream)
    /\ sentences \in RowTables
    /\ pending = Keys(wordforms)
    /\ insert_data = << >>
    /\ db_file = Some([ EmptyFile EXCEPT !.table = TRUE ])
    /\ tx_rows = << >>
    /\ build_pc = "prepare"
    /\ published = None
    /\ reader_saw = None
    /\ IdleMain /\ IdleWiki /\ IdlePipe /\ IdleLog
NextRows == PrepareRow
SpecRows == InitRows /\ [][NextRows]_vars

\* The store published by an earlier, finished build.
OldStore ==
    LET olds == TableOf([ i \in 1..1 |-> "good" ], 1)
        oldw == Aggregate(<< >>, << DomToken(1) >>)
        ex   == select_example_sentences(<< 1 >>, olds, max_examples, << >>)
    IN  CompleteStore(<< insert_row("dom", DictGet(oldw, "dom"), ex) >>)

BuildTables ==
    { TableOf(kinds, NumFree) :
        kinds \in [ 1..NumFree -> { "missing", "good", "blank", "czech", "runs" } ] }
BuildStreams ==
    { << >>, << DomToken(1) >>, << DomToken(1), SuToken(2) >>,
      << DomToken(1), DomToken(2) >> }

InitBuild ==
    /\ stream \in BuildStreams
    /\ wordforms = Aggregate(<< >>, stream)
    /\ sentences \in BuildTables
    /\ pending = << >>
    /\ insert_data = << >>
    /\ db_file \in { None, Some(OldStore) }
    /\ published = db_file
    /\ tx_rows = << >>
    /\ build_pc = "start"
    /\ reader_saw = None
    /\ IdleMain /\ IdleWiki /\ IdlePipe /\ IdleLog
NextBuild ==
    \/ RemoveExisting \/ Connect \/ CreateTable \/ PrepareRow \/ BeginTransaction
    \/ InsertRow \/ Commit \/ CreateIndexes \/ FinishStats \/ BuildFails \/ Lookup
SpecBuild == InitBuild /\ [][NextBuild]_vars

\* ---- properties of the index build ----

\* C1: when create_sqlite_database has failed, the store file is exactly the
\* store that was published before the rebuild started.
C1_RebuildAtomic ==
    (build_pc = "failed" /\ published # None) => db_file = published

\* C2: a reader only ever finds a complete, finished store: the store published
\* before the rebuild, or the finished store of the rebuild.
C2_ReaderSeesComplete ==
    (reader_saw # None /\ published # None) =>
        /\ reader_saw[1].kind = "rows"
        /\ \/ reader_saw[1].rows = published[1].rows
           \/ (build_pc \in { "committed", "closed", "done", "failed" }
               /\ reader_saw[1].rows = insert_data /\ insert_data # << >>)

\* C3: every row prepared for the store has between 1 and 5 examples, each of
\* length greater than 0.
C3_ExamplesNonEmpty ==
    \A i \in 1..Len(insert_data) :
        LET ex == JsonLoads(insert_data[i].sentences)
        IN  /\ Len(ex) >= 1
            /\ Len(ex) <= 5
            /\ \A j \in 1..Len(ex) : TextLen(ex[j]) > 0

\* The row prepared for a wordform has no sentence id found in the table.
Unresolvable(wordform) ==
    \A sid \in DictGet(wordforms, wordform).sentence_ids : ~DictHas(sentences, sid)

\* C11: the row of a wordform none of whose reservoir sentence ids is in the
\* sentence table holds exactly one example, the placeholder naming the
\* wordform; and no row holds an empty example list.
C11_PlaceholderRow ==
    \A i \in 1..Len(insert_data) :
        LET ex == JsonLoads(insert_data[i].sentences)
        IN  /\ ex # << >>
            /\ Unresolvable(insert_data[i].wordform)
                  => ex = << Placeholder(insert_data[i].wordform) >>

\* C11 witness: a row was prepared for a wordform with a non-empty reservoir
\* none of whose ids resolves, next to a table that is not empty.
C11_Witness ==
    \E i \in 1..Len(insert_data) :
        /\ Unresolvable(insert_data[i].wordform)
        /\ DictGet(wordforms, insert_data[i].wordform).sentence_ids # {}
        /\ sentences # << >>

\* ---- properties of select_example_sentences ----

\* The reservoir of the wordform of row i, and the examples of the row.
ReservoirOf(i) == DictGet(wordforms, insert_data[i].wordform).sentence_ids
ExamplesOf(i) == JsonLoads(insert_data[i].sentences)

\* A text that is not shorter than 10 characters, does not start with '=' and
\* does not contain "http".
NotShortNotTechnical(text) ==
    TextLen(text) >= 10 /\ ~text.eq /\ ~text.http

\* C21: when the resolvable reservoir sentences that are not shorter than 10
\* characters, do not start with '=' and do not contain "http" number between
\* 1 and max_examples, the examples of the row are exactly those sentences.
C21_PoolFilter ==
    \A i \in 1..Len(insert_data) :
        LET pool == SelectSeq(ResolvedTexts(Ascending(ReservoirOf(i)), sentences),
                              NotShortNotTechnical)
        IN  (pool # << >> /\ Len(pool) <= max_examples)
                => Range(ExamplesOf(i)) = Range(pool)

\* C22: when at least one reservoir id resolves and no resolved sentence
\* passes the filters, the examples of the row are a non-empty list of texts
\* of resolvable reservoir sentences (so not the placeholder).
C22_FallbackResolvable ==
    \A i \in 1..Len(insert_data) :
        LET resolved == ResolvedTexts(Ascending(ReservoirOf(i)), sentences)
            ex == ExamplesOf(i)
        IN  (resolved # << >> /\ \A j \in 1..Len(resolved) : ~PassesFilter(resolved[j]))
                => /\ ex # << >>
                   /\ \A j \in 1..Len(ex) : ex[j] \in Range(resolved)

\* C22 witness: a row whose reservoir resolves to two or more sentences, none
\* of which passes the filters.
C22_Witness ==
    \E i \in 1..Len(insert_data) :
        LET resolved == ResolvedTexts(Ascending(ReservoirOf(i)), sentences)
        IN  /\ Cardinality(Range(resolved)) >= 2
            /\ \A j \in 1..Len(resolved) : ~PassesFilter(resolved[j])

\* C23: when the pool has between 1 and max_examples sentences, the examples
\* of the row are the whole pool in the order of one iteration of the
\* reservoir.
C23_SmallPoolAsIs ==
    \A i \in 1..Len(insert_data) :
        \E ids \in IterOrders(ReservoirOf(i)) :
            LET avail == AvailableSentences(ids, sentences)
            IN  (avail # << >> /\ Len(avail) <= max_examples)
                    => ExamplesOf(i) = avail

\* C23 witness: a row whose pool has exactly max_examples sentences, three or
\* more of them different, next to a reservoir with ids that are filtered out.
C23_Witness ==
    \E i \in 1..Len(insert_data) :
        LET avail == AvailableSentences(Ascending(ReservoirOf(i)), sentences)
        IN  /\ Len(avail) = max_examples
            /\ Cardinality(Range(avail)) >= 3
            /\ Cardinality(ReservoirOf(i)) > max_examples
            /\ ExamplesOf(i) = avail

\* C24: when the pool has more than max_examples sentences, the examples of
\* the row are exactly max_examples sentences: the first, the last and the
\* middle one of the pool in that order, then other sentences of the pool.
C24_ExactlyN ==
    \A i \in 1..Len(insert_data) :
        \E ids \in IterOrders(ReservoirOf(i)) :
            LET avail == AvailableSentences(ids, sentences)
                ex == ExamplesOf(i)
            IN  Len(avail) > max_examples
                    => /\ Len(ex) = max_examples
                       /\ SubSeq(ex, 1, 3) = << avail[1], avail[Len(avail)],
                                                avail[(Len(avail) \div 2) + 1] >>
                       /\ Range(ex) \subseteq Range(avail)

\* C17: a lookup returns at most `limit` examples, all of them (normalized)
\* examples of one row whose wordform or lemma equals the word without regard
\* to case, and returns the empty list when no row matches or the store has
\* no readable table.
C17_LookupBounded ==
    reader_saw # None =>
        LET r == reader_saw[1]
            hits == { i \in 1..Len(r.rows) : RowMatches(r.rows[i], r.word) }
        IN  /\ Len(r.out) <= r.limit
            /\ r.out # << >> =>
                 \E i \in hits :
                    \A j \in 1..Len(r.out) :
                       \E k \in 1..Len(JsonLoads(r.rows[i].sentences)) :
                          r.out[j] = NormalizeSpaces(JsonLoads(r.rows[i].sentences)[k])
            /\ (r.kind # "rows" \/ hits = {}) => r.out = << >>

-----------------------------------------------------------------------------
(* corpus/index_builder.py: load_sentences, main *)

\* Bounds of the input files explored.
MaxSentLines  == 1    \* lines of sentences.jsonl
MaxMorphLines == 3    \* lines of morphology_data.jsonl

\* A line of an input file.
\*   "ok"          a JSON object with every field the loop reads
\*   "unparseable" json.loads raises JSONDecodeError
\*   "no_field"    a JSON object lacking a field the loop reads (KeyError)
\*   "blank"       line.strip() is empty
OkLine(data) == [ kind |-> "ok", data |-> data ]
BadLine(kind) == [ kind |-> kind, data |-> << >> ]
MalformedKinds == { "unparseable", "no_field" }

\* The "ok" records among the lines read.
OkData(lines) ==
    LET ok(l) == l.kind = "ok"
        kept == SelectSeq(lines, ok)
    IN  [ i \in 1..Len(kept) |-> kept[i].data ]

\* Lines 21-28 of load_sentences for one line: the dict afterwards, and whether
\* an exception leaves the function (only JSONDecodeError is caught).
load_sentences_step(sents, line) ==
    CASE line.kind = "blank"       -> [ sents |-> sents, raised |-> FALSE ]   \* line 22
      [] line.kind = "unparseable" -> [ sents |-> sents, raised |-> FALSE ]   \* lines 26-28
      [] line.kind = "no_field"    -> [ sents |-> sents, raised |-> TRUE ]    \* line 25
      [] line.kind = "ok" ->
            [ sents |-> DictPut(sents, line.data.sentence_id, line.data.text),
              raised |-> FALSE ]

\* Lines 49-91 of process_morphology_data for one line.
process_morphology_line(wfs, line) ==
    CASE line.kind = "blank"       -> [ wfs |-> wfs, raised |-> FALSE ]       \* line 50
      [] line.kind = "unparseable" -> [ wfs |-> wfs, raised |-> FALSE ]       \* lines 89-91
      [] line.kind = "no_field"    -> [ wfs |-> wfs, raised |-> TRUE ]        \* lines 53-57
      [] line.kind = "ok" -> [ wfs |-> morphology_step(wfs, line.data), raised |-> FALSE ]

\* The lines a sentences file may continue with: the next sentence with a good
\* or a whitespace-only text, or a line that is not a sentence record.
SentLineChoices(lines) ==
    LET sid == Len(OkData(lines)) + 1
    IN  { OkLine([ sentence_id |-> sid, text |-> SampleText(kind, sid) ]) :
            kind \in { "good", "blank" } }
        \cup { BadLine(kind) : kind \in MalformedKinds \cup { "blank" } }

\* The lines a morphology file may continue with; the n-th token is in
\* sentence n.
MorphLineChoices(lines) ==
    LET sid == Len(OkData(lines)) + 1
    IN  { OkLine(Token("dom", << "dom", "NOUN" >>, ft, sid)) :
            ft \in { "", "Number=Plur", "Number=Sing" } }
        \cup { OkLine(Token("su", << "byt", "AUX" >>, "Number=Plur", sid)) }
        \cup { BadLine(kind) : kind \in MalformedKinds \cup { "blank" } }

\* Lines 291-297: where main continues after looking for the input files.
main_check(files) ==
    IF ~files.sentences THEN "return"
    ELSE IF ~files.morphology THEN "return"
    ELSE "load"

\* Variant of the check that goes on to the build without the inputs.
CheckInputs_nocheck ==
    /\ pipe_pc = "check"
    /\ pipe_pc' = IF main_check(in_files) = "load" THEN "load" ELSE "build"
    /\ build_pc' = IF main_check(in_files) = "load" THEN build_pc ELSE "start"
    /\ UNCHANGED << logVars, in_files, sent_lines, morph_lines, export_file, stats_file,
                    aggVars, sentences, pending, insert_data, db_file, tx_rows,
                    published, reader_saw, mainVars, wikiVars >>

\* Lines 290-297.
CheckInputs ==
    /\ pipe_pc = "check"
    /\ pipe_pc' = main_check(in_files)
    /\ UNCHANGED << logVars, in_files, sent_lines, morph_lines, export_file, stats_file,
                    aggVars, sentences, pending, insert_data, db_file, tx_rows,
                    build_pc, published, reader_saw, mainVars, wikiVars >>

\* Line 301, load_sentences: one more line of the file is read.  An exception
\* that leaves load_sentences is caught at line 333 of main.
LoadSentence ==
    /\ pipe_pc = "load"
    /\ Len(sent_lines) < MaxSentLines
    /\ \E line \in SentLineChoices(sent_lines) :
         LET r == load_sentences_step(sentences, line)
         IN  /\ sent_lines' = Append(sent_lines, line)
             /\ sentences' = r.sents
             /\ pipe_pc' = IF r.raised THEN "failed" ELSE "load"
    /\ UNCHANGED << logVars, in_files, morph_lines, export_file, stats_file, aggVars,
                    pending, insert_data, db_file, tx_rows, build_pc, published,
                    reader_saw, mainVars, wikiVars >>

\* Lines 30-31: end of the sentences file.
LoadDone ==
    /\ pipe_pc = "load"
    /\ pipe_pc' = "morph"
    /\ UNCHANGED << logVars, in_files, sent_lines, morph_lines, export_file, stats_file,
                    aggVars, buildVars, mainVars, wikiVars >>

\* Line 304, process_morphology_data: one more line of the file is read.
MorphLine ==
    /\ pipe_pc = "morph"
    /\ Len(morph_lines) < MaxMorphLines
    /\ \E line \in MorphLineChoices(morph_lines) :
         LET r == process_morphology_line(wordforms, line)
         IN  /\ morph_lines' = Append(morph_lines, line)
             /\ stream' = IF line.kind = "ok" THEN Append(stream, line.data) ELSE stream
             /\ wordforms' = r.wfs
             /\ pipe_pc' = IF r.raised THEN "failed" ELSE "morph"
    /\ UNCHANGED << logVars, in_files, sent_lines, export_file, stats_file, buildVars,
                    mainVars, wikiVars >>

\* Lines 93-94 and 307: end of the morphology file; create_sqlite_database is
\* called.
MorphDone ==
    /\ pipe_pc = "morph"
    /\ pipe_pc' = "build"
    /\ build_pc' = "start"
    /\ UNCHANGED << logVars, in_files, sent_lines, morph_lines, export_file, stats_file,
                    aggVars, sentences, pending, insert_data, db_file, tx_rows,
                    published, reader_saw, mainVars, wikiVars >>

\* Line 307: create_sqlite_database returns its statistics, or an exception
\* leaves it and is caught at line 333.
BuildReturns ==
    /\ pipe_pc = "build"
    /\ build_pc \in { "done", "failed" }
    /\ pipe_pc' = IF build_pc = "done" THEN "export" ELSE "failed"
    /\ UNCHANGED << logVars, in_files, sent_lines, morph_lines, export_file, stats_file,
                    aggVars, buildVars, mainVars, wikiVars >>

\* sorted(wordforms_data.items()): the forms of Forms in lexicographic order.
\* Variant iterating the dict in insertion order.
SortedForms_insertion(d) == Keys(d)

FormOrder == << " ", "dom", "su" >>
SortedForms(d) ==
    LET present(f) == DictHas(d, f)
    IN  SelectSeq(FormOrder, present)

\* Lines 247-262: the record written for one wordform.
export_record(wordform, data, examples) ==
    LET example_sentences == IF examples = << >> THEN << Placeholder(wordform) >>
                             ELSE examples
    IN  [ wordform |-> wordform, lemma |-> data.lemma, upos |-> data.upos,
          feats |-> MostCommonFeats(data.feats_counter), frequency |-> data.frequency,
          sentences |-> example_sentences ]

\* The records create_jsonl_export may write for one wordform: one for every
\* iteration order of the reservoir and every outcome of the shuffle.
ExportRecords(wfs, sents, wordform) ==
    LET data == DictGet(wfs, wordform)
    IN  UNION { { export_record(wordform, data,
                      select_example_sentences(ids, sents, max_examples, perm)) :
                    perm \in ShuffleOutcomes(ShuffleLen(ids, sents, max_examples)) } :
                ids \in IterOrders(data.sentence_ids) }

\* Lines 244-264: the possible contents of the export, one line per wordform
\* in sorted order.
RECURSIVE ExportContents(_, _, _)
ExportContents(wfs, sents, forms) ==
    IF forms = << >> THEN { << >> }
    ELSE { << r >> \o rest : r \in ExportRecords(wfs, sents, Head(forms)),
                             rest \in ExportContents(wfs, sents, Tail(forms)) }

\* Lines 167-172, 200-204, 231-235: the statistics of a build.
RECURSIVE TotalExamples(_)
TotalExamples(rows) ==
    IF rows = << >> THEN 0
    ELSE Len(JsonLoads(Head(rows).sentences)) + TotalExamples(Tail(rows))
Stats(rows) ==
    [ total_wordforms |-> Len(rows), total_examples |-> TotalExamples(rows) ]

\* Line 310, create_jsonl_export.
Export ==
    /\ pipe_pc = "export"
    /\ \E content \in ExportContents(wordforms, sentences, SortedForms(wordforms)) :
         export_file' = Some(content)
    /\ pipe_pc' = "stats"
    /\ UNCHANGED << logVars, in_files, sent_lines, morph_lines, stats_file, aggVars,
                    buildVars, mainVars, wikiVars >>

\* Line 313, save_statistics.
SaveStatistics ==
    /\ pipe_pc = "stats"
    /\ stats_file' = Some(Stats(insert_data))
    /\ pipe_pc' = "done"
    /\ UNCHANGED << logVars, in_files, sent_lines, morph_lines, export_file, aggVars,
                    buildVars, mainVars, wikiVars >>

\* The files an earlier, finished run of main left behind.
OldExport ==
    [ i \in 1..Len(OldStore.rows) |->
        [ OldStore.rows[i] EXCEPT !.sentences = JsonLoads(@) ] ]
OldStats == Stats(OldStore.rows)

InitIndex ==
    /\ pipe_pc = "check"
    /\ in_files \in [ sentences : BOOLEAN, morphology : BOOLEAN ]
    /\ sent_lines = << >> /\ morph_lines = << >>
    /\ \/ db_file = None /\ export_file = None /\ stats_file = None
       \/ db_file = Some(OldStore) /\ export_file = Some(OldExport)
          /\ stats_file = Some(OldStats)
    /\ published = db_file
    /\ stream = << >> /\ wordforms = << >>
    /\ sentences = << >> /\ pending = << >> /\ insert_data = << >>
    /\ tx_rows = << >> /\ build_pc = "idle" /\ reader_saw = None
    /\ IdleMain /\ IdleWiki /\ IdleLog
NextIndex ==
    \/ CheckInputs \/ LoadSentence \/ LoadDone \/ MorphLine \/ MorphDone
    \/ RemoveExisting \/ Connect \/ CreateTable \/ PrepareRow \/ BeginTransaction
    \/ InsertRow \/ Commit \/ CreateIndexes \/ FinishStats \/ BuildReturns
    \/ Export \/ SaveStatistics
SpecIndex == InitIndex /\ [][NextIndex]_vars


\* ---- properties of the index-building pipeline ----

\* Positions of the lines of s with surface form f and feature string ft.
FeatIdx(s, f, ft) == { i \in FormIdx(s, f) : s[i].feats = ft }
FeatsOf(s, f) == { s[i].feats : i \in FormIdx(s, f) }

\* C12: the feature string of every prepared row occurs at least as often
\* among the lines of its wordform as any other feature string, and among the
\* feature strings occurring equally often it is the one read first; the
\* lines 'Number=Plur', 'Number=Plur', 'Number=Sing' give 'Number=Plur' and
\* frequency 3.
C12_MostFrequentFeats ==
    \A i \in 1..Len(insert_data) :
        LET f  == insert_data[i].wordform
            ft == insert_data[i].feats
            n(g) == Cardinality(FeatIdx(stream, f, g))
        IN  /\ ft \in FeatsOf(stream, f)
            /\ \A g \in FeatsOf(stream, f) :
                  /\ n(g) <= n(ft)
                  /\ n(g) = n(ft) => MinOf(FeatIdx(stream, f, ft)) <= MinOf(FeatIdx(stream, f, g))
            /\ [ j \in 1..Len(stream) |-> stream[j].feats ]
                   = << "Number=Plur", "Number=Plur", "Number=Sing" >>
                /\ FormIdx(stream, f) = 1..3
                  => ft = "Number=Plur" /\ insert_data[i].frequency = 3

\* C12 witness: the finished store holds a row of a wordform for which two
\* feature strings are tied at the maximum, the second-read one different
\* from the persisted one.
C12_Witness ==
    /\ pipe_pc = "done"
    /\ db_file # None /\ db_file[1].rows = insert_data
    /\ \E i \in 1..Len(insert_data) :
         LET f  == insert_data[i].wordform
             ft == insert_data[i].feats
         IN  \E g \in FeatsOf(stream, f) \ { ft } :
               /\ Cardinality(FeatIdx(stream, f, g)) = Cardinality(FeatIdx(stream, f, ft))
               /\ insert_data[i].frequency = 3

\* C13: when main has ended, either the store is the complete store of this
\* run and the statistics of this run are written, or the run failed and a
\* store published before the run is still in place unchanged.
C13_TwoOutcomes ==
    pipe_pc \in { "done", "failed", "return" } =>
        \/ /\ pipe_pc = "done"
           /\ db_file = Some(CompleteStore(insert_data))
           /\ stats_file = Some(Stats(insert_data))
        \/ /\ pipe_pc \in { "failed", "return" }
           /\ published # None => db_file = published

\* The sentence table built from well-formed sentence records.
RECURSIVE TableFrom(_, _)
TableFrom(sents, recs) ==
    IF recs = << >> THEN sents
    ELSE TableFrom(DictPut(sents, Head(recs).sentence_id, Head(recs).text), Tail(recs))

\* C14: reading a malformed line never ends the run, and the sentence table
\* and the wordform aggregate are those of the lines read with the malformed
\* lines removed.
C14_MalformedSkipped ==
    /\ pipe_pc = "failed" => build_pc = "failed"
    /\ sentences = TableFrom(<< >>, OkData(sent_lines))
    /\ wordforms = Aggregate(<< >>, OkData(morph_lines))

\* Position of a wordform in the order of Python string comparison.
FormRank(f) == CHOOSE i \in 1..Len(FormOrder) : FormOrder[i] = f

\* C26: the export written by a run has one line per wordform of the
\* aggregate, in ascending order of wordform, and each line has the wordform,
\* lemma, part of speech, feature string and frequency of the one row of the
\* store for that wordform.
C26_ExportMatchesStore ==
    pipe_pc \in { "stats", "done" } =>
        LET ex == export_file[1]
            rows == db_file[1].rows
        IN  /\ Len(ex) = Len(wordforms)
            /\ { ex[i].wordform : i \in 1..Len(ex) } = DictKeys(wordforms)
            /\ \A i \in 1..Len(ex) : \A j \in (i + 1)..Len(ex) :
                   FormRank(ex[i].wordform) < FormRank(ex[j].wordform)
            /\ \A i \in 1..Len(ex) :
                   LET same == { r \in 1..Len(rows) : rows[r].wordform = ex[i].wordform }
                   IN  /\ Cardinality(same) = 1
                       /\ \A r \in same :
                              /\ rows[r].lemma = ex[i].lemma
                              /\ rows[r].upos = ex[i].upos
                              /\ rows[r].feats = ex[i].feats
                              /\ rows[r].frequency = ex[i].frequency

\* C26 witness: a finished run whose export has two lines, in another order
\* than the rows of the store, one of them for a wordform seen twice.
C26_Witness ==
    /\ pipe_pc = "done"
    /\ Len(export_file[1]) = 2
    /\ export_file[1][1].wordform # db_file[1].rows[1].wordform
    /\ \E i \in 1..2 : export_file[1][i].frequency = 2

\* C16: when one of the two input files is absent, main ends at the check:
\* create_sqlite_database is never entered, no store is created, and the store,
\* the export and the statistics of an earlier run stay as they were.
C16_MissingInputAborts ==
    (~in_files.sentences \/ ~in_files.morphology) =>
        /\ pipe_pc \in { "check", "return" }
        /\ build_pc = "idle"
        /\ db_file = published
        /\ export_file = (IF published = None THEN None ELSE Some(OldExport))
        /\ stats_file = (IF published = None THEN None ELSE Some(OldStats))

\* C16 witness: main has returned because the morphology file is absent while
\* the sentences file and the files of an earlier run exist.
C16_Witness ==
    /\ in_files.sentences /\ ~in_files.morphology
    /\ pipe_pc = "return"
    /\ published # None /\ export_file # None /\ stats_file # None

-----------------------------------------------------------------------------
(* build_examples_stream.py: WikiHandler *)

\* Characters of page titles, one token per code point.  "c_caron"/"C_caron"
\* stand for U+010D/U+010C, "I_dot" for U+0130 (capital I with dot above) and
\* "dot_above" for the combining U+0307.
AsciiLower == { "a", "d", "e", "k", "m", "o", "r", "w" }
AsciiUpper == { "D", "M", "N", "Y" }
\* The character class of the regex at line 96: A-Z, a-z, the range U+00C0 to
\* U+017E (which contains U+010C, U+010D and U+0130) and the listed letters.
ClassChars == AsciiLower \cup AsciiUpper \cup { "c_caron", "C_caron", "I_dot" }

\* `{2,30}` at line 96
MinKeyLen == 2
MaxKeyLen == 30

IsDigit(ch) == ch = "2"

\* str.lower() on one code point; U+0130 lowers to the two code points
\* "i" + U+0307.
LowerChar(ch) ==
    CASE ch = "D" -> << "d" >>
      [] ch = "M" -> << "m" >>
      [] ch = "N" -> << "n" >>
      [] ch = "Y" -> << "y" >>
      [] ch = "C_caron" -> << "c_caron" >>
      [] ch = "I_dot" -> << "i", "dot_above" >>
      [] OTHER -> << ch >>

RECURSIVE StrLower(_)
StrLower(str) ==
    IF str = << >> THEN << >> ELSE LowerChar(Head(str)) \o StrLower(Tail(str))

\* str.strip() on a title: drops leading and trailing spaces.
RECURSIVE LStrip(_)
LStrip(str) ==
    IF str # << >> /\ Head(str) = " " THEN LStrip(Tail(str)) ELSE str
RECURSIVE RStrip(_)
RStrip(str) ==
    IF str # << >> /\ str[Len(str)] = " " THEN RStrip(SubSeq(str, 1, Len(str) - 1)) ELSE str
StrStrip(str) == RStrip(LStrip(str))

\* Line 92.
IsTechnicalTitle(key) ==
    \E i \in 1..Len(key) : key[i] = ":" \/ key[i] = " " \/ IsDigit(key[i])

\* Line 96: re.fullmatch of the class, 2 to 30 times.
FullMatchWord(key) ==
    /\ Len(key) >= MinKeyLen
    /\ Len(key) <= MaxKeyLen
    /\ \A i \in 1..Len(key) : key[i] \in ClassChars

\* Lines 89-99: the key of the page, or None when the title is rejected.
PageKey(title) ==
    LET key == StrStrip(title)
    IN  IF IsTechnicalTitle(key) THEN None
        ELSE IF ~FullMatchWord(key) THEN None
        ELSE Some(StrLower(key))

\* A line of the page text (with its line end).
\*   kind  : "header" (== label ==), "bullet" (starts with * or #), "prose"
\*   chars : len(l.strip());  words : number of words left after the markup
\*           characters are removed;  ends : the line ends with . ! or ?
\*   url   : the line starts with http, www, File: or Category:
Line(kind, label, id, chars, words, ends, url) ==
    [ kind |-> kind, label |-> label, id |-> id, chars |-> chars, words |-> words,
      ends |-> ends, url |-> url ]

HeaderExamples == Line("header", "Priklady", "h_priklady", 14, 1, FALSE, FALSE)
HeaderOther    == Line("header", "Etymologia", "h_etym", 16, 1, FALSE, FALSE)
\* "* Macka spi na posteli."
BulletMacka    == Line("bullet", "", "macka_spi", 23, 4, TRUE, FALSE)
\* "* Pes."
BulletShort    == Line("bullet", "", "pes", 6, 1, TRUE, FALSE)
\* a sentence of six words
ProseSix       == Line("prose", "", "six_words", 30, 6, TRUE, FALSE)
\* "http://sk.wikipedia.org je stranka plna dobrych clankov."
ProseUrl       == Line("prose", "", "url_line", 50, 6, TRUE, TRUE)

\* The labels of the three patterns at lines 104-108, in order.
SectionLabels == << "Priklady", "Priklad", "Pouzitie" >>
\* `len(l.strip()) > 10` and `len(l.split()) >= 3` (lines 117, 119)
MinBulletLen   == 10
MinBulletWords == 3
\* `5 <= word_count <= 25` (line 126)
MinSentenceWords == 5
MaxSentenceWords == 25

\* An example text: taken from a bullet line of a section, from a sentence of
\* the text (the lines it spans), or found in the persisted file.
Example(src, ids) == [ src |-> src, ids |-> ids ]

IsHeaderAt(body, i) == body[i].kind = "header"

\* Index of the first header line after line i, or Len(body) + 1.
NextHeader(body, i) ==
    IF \E j \in (i + 1)..Len(body) : IsHeaderAt(body, j)
    THEN CHOOSE j \in (i + 1)..Len(body) :
            IsHeaderAt(body, j) /\ \A m \in (i + 1)..(j - 1) : ~IsHeaderAt(body, m)
    ELSE Len(body) + 1

\* Lines 114-119: the bullet lines of a block that are kept.
RECURSIVE BlockLines(_, _, _)
BlockLines(body, from, to) ==
    IF from > to THEN << >>
    ELSE LET l == body[from]
             keep == l.kind = "bullet" /\ l.chars > MinBulletLen /\ l.words >= MinBulletWords
         IN  (IF keep THEN << Example("section", << l.id >>) >> ELSE << >>)
             \o BlockLines(body, from + 1, to)

\* Lines 111-119 for one pattern: every match of `== label ==` takes the block
\* up to the next header, whose opening `==` the match consumes.
RECURSIVE SectionScan(_, _, _)
SectionScan(body, label, i) ==
    IF i > Len(body) THEN << >>
    ELSE IF IsHeaderAt(body, i) /\ body[i].label = label
    THEN LET j == NextHeader(body, i)
         IN  BlockLines(body, i + 1, j - 1) \o SectionScan(body, label, j + 1)
    ELSE SectionScan(body, label, i + 1)

RECURSIVE SectionLines(_, _)
SectionLines(body, p) ==
    IF p > Len(SectionLabels) THEN << >>
    ELSE SectionScan(body, SectionLabels[p], 1) \o SectionLines(body, p + 1)

\* Lines 122-127: re.split(r'[.!?]\s+') cuts the text after every line that
\* ends a sentence; a piece is kept when it has 5 to 25 words and does not
\* start with a URL marker.
RECURSIVE SentenceLines(_, _)
SentenceLines(body, piece) ==
    IF body = << >>
    THEN << >>
    ELSE LET l == Head(body)
             piece2 == Append(piece, l)
             RECURSIVE Words(_)
             Words(ls) == IF ls = << >> THEN 0 ELSE Head(ls).words + Words(Tail(ls))
             wc == Words(piece2)
             ok == wc >= MinSentenceWords /\ wc <= MaxSentenceWords /\ ~piece2[1].url
             ids == [ i \in 1..Len(piece2) |-> piece2[i].id ]
         IN  IF l.ends \/ Len(body) = 1
             THEN (IF ok THEN << Example("sentence", ids) >> ELSE << >>)
                  \o SentenceLines(Tail(body), << >>)
             ELSE SentenceLines(Tail(body), piece2)

\* list(dict.fromkeys(lines))
RECURSIVE Dedup(_)
Dedup(lines) ==
    IF lines = << >> THEN << >>
    ELSE LET rest == Dedup(SubSeq(lines, 1, Len(lines) - 1))
             last == lines[Len(lines)]
         IN  IF last \in Range(rest) THEN rest ELSE Append(rest, last)

\* list[:n]
Take(list, n) == SubSeq(list, 1, Min(n, Len(list)))

\* Variant without the cut `[:1]` of line 131.
UniqueLines_all(body) ==
    Dedup(SectionLines(body, 1) \o SentenceLines(body, << >>))

\* Lines 101-131: unique_lines, the examples the page contributes.
UniqueLines(body) ==
    Take(Dedup(SectionLines(body, 1) \o SentenceLines(body, << >>)), 1)

\* The handler after __init__ (lines 50-57).
NewHandler ==
    [ examples |-> << >>, current_title |-> << >>, current_text |-> << >>,
      in_title |-> FALSE, in_text |-> FALSE, total_pages |-> 0,
      pages_with_examples |-> 0 ]

\* process_page, lines 84-135.
process_page(hh) ==
    IF hh.current_title = << >> \/ hh.current_text = << >> THEN hh      \* line 85
    ELSE LET key == PageKey(hh.current_title)
             unique_lines == UniqueLines(hh.current_text)
         IN  IF key = None THEN hh                                       \* lines 92-97
             ELSE IF unique_lines = << >> THEN hh                        \* line 130
             ELSE LET old == IF DictHas(hh.examples, key[1])
                             THEN DictGet(hh.examples, key[1]) ELSE << >>
                  IN  [ hh EXCEPT !.examples = DictPut(@, key[1], old \o unique_lines),
                                  !.pages_with_examples = @ + 1 ]

\* startElement, lines 59-65.
startElement(hh, name) ==
    IF name = "title" THEN [ hh EXCEPT !.in_title = TRUE, !.current_title = << >> ]
    ELSE IF name = "text" THEN [ hh EXCEPT !.in_text = TRUE, !.current_text = << >> ]
    ELSE hh

\* endElement, lines 67-76.
endElement(hh, name) ==
    IF name = "title" THEN [ hh EXCEPT !.in_title = FALSE ]
    ELSE IF name = "text" THEN [ hh EXCEPT !.in_text = FALSE ]
    ELSE IF name = "page" THEN process_page([ hh EXCEPT !.total_pages = @ + 1 ])
    ELSE hh

\* characters, lines 78-82.
characters(hh, content) ==
    IF hh.in_title THEN [ hh EXCEPT !.current_title = @ \o content ]
    ELSE IF hh.in_text THEN [ hh EXCEPT !.current_text = @ \o content ]
    ELSE hh

\* The handler after the parser has delivered the title element and the text
\* element of page pg, before the end of the page.
OpenPage(hh, pg) ==
    endElement(characters(startElement(
        endElement(characters(startElement(hh, "title"), pg[1]), "title"),
        "text"), pg[2]), "text")

\* ---- the SAX parser driving one handler ----

\* Bounds of the documents explored.
MaxPages  == 2      \* pages per document
MaxChunks == 2      \* characters() calls inside one title element
MaxLines  == 2      \* characters() calls (one line each) inside one text element

\* Contents delivered inside a title element.
LongChunk == [ i \in 1..(MaxKeyLen - 1) |-> "a" ]
TitleChunks ==
    { << "d", "o", "m" >>, << "M", "a" >>, << "c_caron", "k", "a" >>, << "2" >>,
      << " " >>, << ":" >>, << "I_dot" >>, LongChunk,
      << "N", "e", "w", " ", "Y", "o", "r", "k" >> }
\* Lines delivered inside a text element.
TextLines ==
    { HeaderExamples, HeaderOther, BulletMacka, BulletShort, ProseSix, ProseUrl }

\* The parser is outside any page, or inside a page before the title
\* ("page0"), in the title, after it ("page1"), in the text, after it ("page2").
SaxAt(pos, pages, n) == [ pos |-> pos, pages |-> pages, n |-> n ]

\* parser.parse calls startElement for the next opening tag.  A page holds an
\* optional title element followed by an optional text element.
StartElement ==
    /\ \E name \in { "page", "title", "text" } :
         /\ \/ name = "page" /\ sax.pos = "outside" /\ sax.pages < MaxPages
            \/ name = "title" /\ sax.pos = "page0"
            \/ name = "text" /\ sax.pos \in { "page0", "page1" }
         /\ h' = startElement(h, name)
         /\ sax' = SaxAt(IF name = "page" THEN "page0" ELSE name, sax.pages, 0)
    /\ UNCHANGED << logVars, pipeVars, aggVars, buildVars, mainVars >>

\* parser.parse calls characters for a piece of content.
Characters ==
    /\ \/ /\ sax.pos = "title" /\ sax.n < MaxChunks
          /\ \E content \in TitleChunks : h' = characters(h, content)
       \/ /\ sax.pos = "text" /\ sax.n < MaxLines
          /\ \E line \in TextLines : h' = characters(h, << line >>)
    /\ sax' = [ sax EXCEPT !.n = @ + 1 ]
    /\ UNCHANGED << logVars, pipeVars, aggVars, buildVars, mainVars >>

\* parser.parse calls endElement for the next closing tag.
EndElement ==
    /\ \E name \in { "page", "title", "text" } :
         /\ \/ name = "page" /\ sax.pos \in { "page0", "page1", "page2" }
            \/ name = "title" /\ sax.pos = "title"
            \/ name = "text" /\ sax.pos = "text"
         /\ h' = endElement(h, name)
         /\ sax' = CASE name = "page"  -> SaxAt("outside", sax.pages + 1, 0)
                     [] name = "title" -> SaxAt("page1", sax.pages, 0)
                     [] name = "text"  -> SaxAt("page2", sax.pages, 0)
    /\ UNCHANGED << logVars, pipeVars, aggVars, buildVars, mainVars >>

InitWiki ==
    /\ h = NewHandler
    /\ sax = SaxAt("outside", 0, 0)
    /\ IdleAgg /\ IdleBuild /\ IdleMain /\ IdlePipe /\ IdleLog
NextWiki == StartElement \/ Characters \/ EndElement
SpecWiki == InitWiki /\ [][NextWiki]_vars

\* ---- properties of WikiHandler ----

\* C10: every key of the examples map is lower-case, 2 to 30 characters long,
\* made only of characters of the fixed alphabet, without whitespace, digit or
\* ':'.
C10_KeysWellFormed ==
    \A i \in 1..Len(h.examples) :
        LET key == h.examples[i].k
        IN  /\ Len(key) >= 2
            /\ Len(key) <= 30
            /\ StrLower(key) = key
            /\ \A j \in 1..Len(key) :
                  /\ key[j] \in ClassChars
                  /\ key[j] # " " /\ key[j] # ":" /\ ~IsDigit(key[j])

\* C19: closing a page in which no text element was delivered processes an
\* empty body, so the examples map is left as it was: nothing accumulated in an
\* earlier page is used for it.
C19_OnlyOwnPageContent ==
    [][ (sax.pos \in { "page0", "page1" } /\ sax'.pos = "outside")
            => h'.examples = h.examples ]_vars

\* ---- one whole page delivered to a handler ----

\* Lines of the text element of the page.
MaxBodyLines == 3

MackaKey == << "m", "a", "c_caron", "k", "a" >>
PageTitles == { MackaKey, << "M", "a", "c_caron", "k", "a" >>, << "d", "o", "m" >> }
PageBodies == UNION { [ 1..n -> TextLines ] : n \in 0..MaxBodyLines }

\* The handler before the page: new, or after a page of the same title with
\* one sentence.
SeenMacka == endElement(OpenPage(NewHandler, << MackaKey, << ProseSix >> >>), "page")
SeedHandlers == { NewHandler, SeenMacka }

\* parser.parse delivers one page (title element, text element) and reaches
\* the end of the document.
ParseOnePage ==
    /\ sax.pos = "outside"
    /\ \E title \in PageTitles, body \in PageBodies :
         h' = endElement(OpenPage(h, << title, body >>), "page")
    /\ sax' = SaxAt("eof", sax.pages + 1, 0)
    /\ UNCHANGED << logVars, pipeVars, aggVars, buildVars, mainVars >>

InitPage ==
    /\ h \in SeedHandlers
    /\ sax = SaxAt("outside", h.total_pages, 0)
    /\ IdleAgg /\ IdleBuild /\ IdleMain /\ IdlePipe /\ IdleLog
NextPage == ParseOnePage
SpecPage == InitPage /\ [][NextPage]_vars

\* Line j of the body lies in a section whose header carries one of the labels.
InLabeledSection(body, j) ==
    \E i \in 1..(j - 1) :
        /\ IsHeaderAt(body, i)
        /\ \E p \in 1..Len(SectionLabels) : body[i].label = SectionLabels[p]
        /\ \A m \in (i + 1)..(j - 1) : ~IsHeaderAt(body, m)

\* C18: after a page titled 'macka' whose body holds the bullet line
\* '* Macka spi na posteli.' in a labeled section, the example recorded for
\* the key 'macka' is that bullet line, whatever bare sentences the page has.
C18_SectionBulletRecorded ==
    (/\ sax.pos = "eof"
     /\ PageKey(h.current_title) = Some(MackaKey)
     /\ \E j \in 1..Len(h.current_text) :
           h.current_text[j] = BulletMacka /\ InLabeledSection(h.current_text, j))
    => /\ DictHas(h.examples, MackaKey)
       /\ LET list == DictGet(h.examples, MackaKey)
          IN  list[Len(list)] = Example("section", << "macka_spi" >>)

\* The map `new` is the map `old` with one example appended to the list of
\* one key (a list that is created when the key is new).
OnePairAdded(old, new) ==
    \E i \in 1..Len(new) :
        LET key == new[i].k
            prev == IF DictHas(old, key) THEN DictGet(old, key) ELSE << >>
        IN  /\ Len(new[i].v) = Len(prev) + 1
            /\ SubSeq(new[i].v, 1, Len(prev)) = prev
            /\ DictKeys(new) = DictKeys(old) \cup { key }
            /\ \A k2 \in DictKeys(old) \ { key } : DictGet(new, k2) = DictGet(old, k2)

\* C25: the page handled in a step leaves the examples map as it was or
\* appends one example to the list of one key; a page whose text has neither
\* a section line nor a sentence candidate leaves it as it was.
C25_AtMostOnePair ==
    [][ /\ h'.examples = h.examples \/ OnePairAdded(h.examples, h'.examples)
        /\ (SectionLines(h'.current_text, 1) = << >>
              /\ SentenceLines(h'.current_text, << >>) = << >>)
             => h'.examples = h.examples ]_vars

\* C25 witness: a page with two or more different candidates was handled and
\* its key, known before the page, has got a second example.
C25_Witness ==
    /\ sax.pos = "eof"
    /\ Len(Dedup(SectionLines(h.current_text, 1) \o SentenceLines(h.current_text, << >>))) >= 2
    /\ DictHas(h.examples, MackaKey)
    /\ Len(DictGet(h.examples, MackaKey)) = 2
    /\ h.pages_with_examples = 2

-----------------------------------------------------------------------------
(* build_examples_stream.py: merge_and_clean and the script *)

\* len(DUMP_URLS), lines 8-17
NumUrls == 4
\* Bound: pages parsed in one run of the script, over all dumps.
MaxRunPages == 3
\* `unique[:1]`, line 163
KeepPerWord == 1

\* Variant of lines 155-157: a list is stored for a new word only, and a word
\* already present keeps its list.
RECURSIVE ExtendAll_setdefault(_, _)
ExtendAll_setdefault(merged, d) ==
    IF d = << >> THEN merged
    ELSE LET word == Head(d).k
         IN  ExtendAll_setdefault(
                 IF DictHas(merged, word) THEN merged
                 ELSE DictPut(merged, word, Head(d).v), Tail(d))

\* Lines 153-157 for one source dict d: every list of d is appended to the
\* list of the same word, which is created when absent.
RECURSIVE ExtendAll(_, _)
ExtendAll(merged, d) ==
    IF d = << >> THEN merged
    ELSE LET word == Head(d).k
             old == IF DictHas(merged, word) THEN DictGet(merged, word) ELSE << >>
         IN  ExtendAll(DictPut(merged, word, old \o Head(d).v), Tail(d))

\* Lines 151-157: the dict `merged` after all sources are folded in.
RECURSIVE MergedLists(_, _)
MergedLists(merged, new_dicts) ==
    IF new_dicts = << >> THEN merged
    ELSE MergedLists(ExtendAll(merged, Head(new_dicts)), Tail(new_dicts))

\* Variant: the lists are returned as merged, neither deduplicated nor cut.
merge_and_clean_nocleanup(existing_dict, new_dicts) ==
    MergedLists(existing_dict, new_dicts)

\* Variant: the last example of each list is kept.
merge_and_clean_keeplast(existing_dict, new_dicts) ==
    LET merged == MergedLists(existing_dict, new_dicts)
    IN  [ i \in 1..Len(merged) |->
            [ k |-> merged[i].k,
              v |-> LET u == Dedup(merged[i].v)
                    IN  SubSeq(u, Len(u) - Min(KeepPerWord, Len(u)) + 1, Len(u)) ] ]

\* merge_and_clean, lines 149-165: the returned dict `cleaned`.
merge_and_clean(existing_dict, new_dicts) ==
    LET merged == MergedLists(existing_dict, new_dicts)
    IN  [ i \in 1..Len(merged) |->
            [ k |-> merged[i].k, v |-> Take(Dedup(merged[i].v), KeepPerWord) ] ]

\* Line 162: the dict word -> `unique`, the deduplicated list before it is cut.
UniquePerWord(existing_dict, new_dicts) ==
    LET merged == MergedLists(existing_dict, new_dicts)
    IN  [ i \in 1..Len(merged) |-> [ k |-> merged[i].k, v |-> Dedup(merged[i].v) ] ]

\* `merged = existing_dict.copy()` is a shallow copy: the lists of
\* existing_dict are the lists extended at line 157.  The caller's dict after
\* the call.
ExistingAfterMerge(existing_dict, new_dicts) ==
    LET merged == MergedLists(existing_dict, new_dicts)
    IN  [ i \in 1..Len(existing_dict) |->
            [ k |-> existing_dict[i].k, v |-> DictGet(merged, existing_dict[i].k) ] ]

\* Python dict equality: same keys, same values, in any order.
DictEq(a, b) ==
    /\ DictKeys(a) = DictKeys(b)
    /\ Len(a) = Len(b)
    /\ \A i \in 1..Len(a) : DictGet(b, a[i].k) = a[i].v

\* Pages of the dumps: (title, text).
PageDom    == << << "d", "o", "m" >>, << ProseSix >> >>
PageDomCap == << << "D", "o", "m" >>, << HeaderExamples, BulletMacka >> >>
PageMacka  == << << "M", "a", "c_caron", "k", "a" >>, << HeaderExamples, BulletMacka >> >>
PageDom2   == << << "d", "o", "m", "2" >>, << ProseSix >> >>
SamplePages == { PageDom, PageDomCap, PageMacka, PageDom2 }

\* Contents of examples.json left by earlier runs or tools: absent, or a map
\* word -> non-empty list of examples.
OldExample == Example("file", << "old" >>)
SeedFiles ==
    { None,
      Some(<< [ k |-> << "d", "o", "m" >>, v |-> << OldExample >> ] >>),
      Some(<< [ k |-> << "m", "a", "c_caron", "k", "a" >>,
                v |-> << Example("section", << "macka_spi" >>), OldExample >> ],
              [ k |-> << "p", "e", "s" >>, v |-> << OldExample >> ] >>) }

\* The records a stream may be aborted in: none, or a record whose title and
\* text were delivered but whose end was not.
Unterminated == { None } \cup { Some(pg) : pg \in SamplePages }

\* dump_log with its last entry, the URL being processed, set to `status`.
LogEnd(log, status) == [ log EXCEPT ![Len(log)] = status ]

\* Line 169: load_existing_examples (lines 34-47).
LoadExisting ==
    /\ main_pc = "start"
    /\ existing_examples' = IF examples_file = None THEN << >> ELSE examples_file[1]
    /\ loaded' = existing_examples'
    /\ collected' = << >>
    /\ url_idx' = 1
    /\ main_pc' = "loop"
    /\ sax' = SaxAt("outside", 0, 0)
    /\ dump_log' = << >>
    /\ UNCHANGED << logVars, pipeVars, aggVars, buildVars, examples_file, final, run, h >>

\* Lines 173-176, 139-141: the next URL; parse_dump_streaming makes a handler.
StartDump ==
    /\ main_pc = "loop"
    /\ url_idx <= NumUrls
    /\ h' = NewHandler
    /\ main_pc' = "parsing"
    /\ dump_log' = Append(dump_log, "parsing")
    /\ UNCHANGED << logVars, pipeVars, aggVars, buildVars, examples_file, existing_examples, loaded,
                    collected, url_idx, final, run, sax >>

\* Line 144: the parser delivers one whole page (title element, text element,
\* end of page) to the handler.
ParsePage ==
    /\ main_pc = "parsing"
    /\ sax.pages < MaxRunPages
    /\ \E pg \in SamplePages :
         h' = endElement(OpenPage(h, pg), "page")
    /\ sax' = [ sax EXCEPT !.pages = @ + 1 ]
    /\ UNCHANGED << logVars, pipeVars, aggVars, buildVars, mainVars >>

\* Lines 146-147, 177: the dump is parsed to its end.
FinishDump ==
    /\ main_pc = "parsing"
    /\ collected' = Append(collected, h.examples)
    /\ url_idx' = url_idx + 1
    /\ main_pc' = "loop"
    /\ dump_log' = LogEnd(dump_log, "ok")
    /\ UNCHANGED << logVars, pipeVars, aggVars, buildVars, examples_file, existing_examples, loaded,
                    final, run, wikiVars >>

\* Variant: the examples of the handler are appended to `collected` although
\* the stream was aborted.
DumpFails_keeps ==
    /\ main_pc = "parsing"
    /\ \E partial \in Unterminated :
         /\ h' = IF partial = None THEN h ELSE OpenPage(h, partial[1])
         /\ collected' = Append(collected, h'.examples)
    /\ dump_log' = LogEnd(dump_log, "failed")
    /\ url_idx' = url_idx + 1
    /\ main_pc' = "loop"
    /\ UNCHANGED << logVars, pipeVars, aggVars, buildVars, examples_file, existing_examples, loaded,
                    final, run, sax >>

\* Variant: the record left unterminated is processed as if it had been closed.
DumpFails_flush ==
    /\ main_pc = "parsing"
    /\ \E partial \in Unterminated :
         h' = IF partial = None THEN h
              ELSE endElement(OpenPage(h, partial[1]), "page")
    /\ dump_log' = LogEnd(dump_log, "failed")
    /\ url_idx' = url_idx + 1
    /\ main_pc' = "loop"
    /\ UNCHANGED << logVars, pipeVars, aggVars, buildVars, examples_file, existing_examples, loaded,
                    collected, final, run, sax >>

\* Lines 143-144 and 178-180: download_dump raises, or the stream of the dump
\* is aborted by a decompression or markup error, possibly inside a record
\* whose title and text were delivered but whose end was not.  The exception
\* leaves parse_dump_streaming, whose handler is a local; the loop goes on with
\* the next URL and nothing is appended to `collected`.
DumpFails ==
    /\ main_pc = "parsing"
    /\ \E partial \in Unterminated :
         h' = IF partial = None THEN h ELSE OpenPage(h, partial[1])
    /\ dump_log' = LogEnd(dump_log, "failed")
    /\ url_idx' = url_idx + 1
    /\ main_pc' = "loop"
    /\ UNCHANGED << logVars, pipeVars, aggVars, buildVars, examples_file, existing_examples, loaded,
                    collected, final, run, sax >>

\* Line 183.
Merge ==
    /\ main_pc = "loop"
    /\ url_idx > NumUrls
    /\ final' = merge_and_clean(existing_examples, collected)
    /\ existing_examples' = ExistingAfterMerge(existing_examples, collected)
    /\ main_pc' = "merged"
    /\ UNCHANGED << logVars, pipeVars, aggVars, buildVars, examples_file, loaded, collected, url_idx,
                    run, dump_log, wikiVars >>

\* Lines 185-186.
Save ==
    /\ main_pc = "merged"
    /\ examples_file' = Some(final)
    /\ main_pc' = "saved"
    /\ UNCHANGED << logVars, pipeVars, aggVars, buildVars, existing_examples, loaded, collected,
                    url_idx, final, run, dump_log, wikiVars >>

\* The script is run once more.  The dump files are on disk (download_dump,
\* lines 23-25) and unchanged, so lines 173-180 collect the same maps again.
Rerun ==
    /\ main_pc = "saved"
    /\ run = 1
    /\ run' = 2
    /\ existing_examples' = examples_file[1]
    /\ loaded' = examples_file[1]
    /\ main_pc' = "loop"
    /\ UNCHANGED << logVars, pipeVars, aggVars, buildVars, examples_file, collected, url_idx, final,
                    dump_log, wikiVars >>

InitMain ==
    /\ examples_file \in SeedFiles
    /\ existing_examples = << >> /\ loaded = << >> /\ collected = << >>
    /\ url_idx = 0 /\ final = << >> /\ main_pc = "start" /\ run = 1
    /\ dump_log = << >>
    /\ h = NewHandler
    /\ sax = SaxAt("outside", 0, 0)
    /\ IdleAgg /\ IdleBuild /\ IdlePipe /\ IdleLog
NextMain ==
    \/ LoadExisting \/ StartDump \/ ParsePage \/ FinishDump \/ DumpFails
    \/ Merge \/ Save \/ Rerun
SpecMain == InitMain /\ [][NextMain]_vars

\* ---- properties of the handling of a failing dump ----

\* The step in which the processing of the current URL ends with an exception.
FailStep ==
    /\ dump_log # << >>
    /\ Len(dump_log') = Len(dump_log)
    /\ dump_log[Len(dump_log)] = "parsing"
    /\ dump_log'[Len(dump_log)] = "failed"

NumEnded(log, status) == Cardinality({ i \in 1..Len(log) : log[i] = status })

\* C15: a failure ends the processing of the current URL only: the loop goes
\* on with the next URL and `collected` gains nothing; `collected` holds one
\* map per URL that was parsed to its end, and when the maps are merged every
\* URL of DUMP_URLS has been tried and the merged map is the merge of the
\* loaded map and those maps.
C15_FailedSourceOnly ==
    /\ [](/\ Len(collected) = NumEnded(dump_log, "ok")
          /\ main_pc \in { "merged", "saved" } =>
                /\ Len(dump_log) = NumUrls
                /\ NumEnded(dump_log, "ok") + NumEnded(dump_log, "failed") = NumUrls
                /\ DictEq(final, merge_and_clean(loaded, collected)))
    /\ [][FailStep => /\ collected' = collected
                      /\ url_idx' = url_idx + 1
                      /\ main_pc' = "loop"]_vars

\* C15 witness: the first and the last URL failed, the second was parsed to
\* its end and gave candidates, and the handler of the last URL held a
\* candidate for a word that is not in the merged map.
C15_Witness ==
    /\ main_pc = "merged"
    /\ Len(dump_log) = NumUrls
    /\ dump_log[1] = "failed" /\ dump_log[2] = "ok" /\ dump_log[NumUrls] = "failed"
    /\ collected[1] # << >>
    /\ \E i \in 1..Len(h.examples) : ~DictHas(final, h.examples[i].k)

\* C20 as stated: the candidates the handler had extracted when the stream was
\* aborted are retained by the caller of parse_dump_streaming.
C20_PartialRetained ==
    [][FailStep /\ h'.examples # << >> => h'.examples \in Range(collected')]_vars

\* C20, amended: when the stream is aborted, the record left unterminated
\* adds no candidate and the handler still holds the candidates of the pages
\* closed before, but the caller of parse_dump_streaming receives none of
\* them: `collected` is unchanged.
C20_PartialDiscarded ==
    [][FailStep => /\ h'.examples = h.examples
                   /\ collected' = collected]_vars

\* C20 witness: the stream was aborted after a page had given a candidate,
\* inside a record that would have given a candidate for another word.
C20_Witness ==
    /\ dump_log # << >> /\ dump_log[Len(dump_log)] = "failed"
    /\ h.examples # << >>
    /\ PageKey(h.current_title) # None
    /\ UniqueLines(h.current_text) # << >>
    /\ ~DictHas(h.examples, PageKey(h.current_title)[1])

\* ---- properties of merge_and_clean ----

\* The sources in another order.
Reordered(list, perm) == [ i \in 1..Len(list) |-> list[perm[i]] ]

\* The examples of a word in fold order: the loaded map first, then the
\* sources in list order.
RECURSIVE SeenInOrder(_, _)
SeenInOrder(dicts, word) ==
    IF dicts = << >> THEN << >>
    ELSE (IF DictHas(Head(dicts), word) THEN DictGet(Head(dicts), word) ELSE << >>)
         \o SeenInOrder(Tail(dicts), word)

AllWords(dicts) == UNION { DictKeys(dicts[i]) : i \in 1..Len(dicts) }

\* C27: after merge_and_clean has returned, the existing map holds the keys
\* and example lists it was loaded with, and every source map is as collected.
C27_InputsUnchanged ==
    /\ [](main_pc \in { "merged", "saved" } => existing_examples = loaded)
    /\ [][(main_pc = "loop" /\ main_pc' = "merged") => collected' = collected]_vars

\* C7: merging with a source given twice yields the same map as merging with
\* it once, and merging the saved result with the same sources again yields
\* that result.
C7_MergeIdempotent ==
    /\ main_pc \in { "merged", "saved" } =>
          \A i \in 1..Len(collected) :
              DictEq(merge_and_clean(loaded, << collected[i], collected[i] >>),
                     merge_and_clean(loaded, << collected[i] >>))
    /\ (main_pc = "merged" /\ run = 2) => DictEq(final, examples_file[1])

\* C7 witness: the second run has merged, and a source given twice repeats an
\* example in a merged list.
C7_Witness ==
    /\ main_pc = "merged" /\ run = 2
    /\ \E i \in 1..Len(collected) :
          LET twice == MergedLists(loaded, << collected[i], collected[i] >>)
          IN  \E j \in 1..Len(twice) :
                  /\ Len(twice[j].v) > Cardinality(Range(twice[j].v))
                  /\ Cardinality(Range(twice[j].v)) > 1

\* C8: for every ordering of the sources, each word has the same set of
\* distinct examples after deduplication, and the merged map has the same
\* words.
C8_OrderIndependent ==
    main_pc = "merged" =>
        \A perm \in Permutations(1..Len(collected)) :
            LET other == Reordered(collected, perm)
                u1 == UniquePerWord(loaded, collected)
                u2 == UniquePerWord(loaded, other)
            IN  /\ DictKeys(u1) = DictKeys(u2)
                /\ \A w \in DictKeys(u1) : Range(DictGet(u1, w)) = Range(DictGet(u2, w))
                /\ DictKeys(merge_and_clean(loaded, other)) = DictKeys(final)

\* C8 witness: two sources hold different examples for one word, so that
\* another order of the sources changes the example that survives.
C8_Witness ==
    /\ main_pc = "merged"
    /\ \E perm \in Permutations(1..Len(collected)) :
          ~DictEq(merge_and_clean(loaded, Reordered(collected, perm)), final)

\* C9: every word of the merged map has exactly one example, the first one
\* seen for it in fold order; the words are those of the loaded map and of the
\* sources.
C9_FirstSeenKept ==
    main_pc = "merged" =>
        /\ DictKeys(final) = AllWords(<< loaded >> \o collected)
        /\ \A i \in 1..Len(final) :
              /\ Len(final[i].v) = 1
              /\ final[i].v[1] = SeenInOrder(<< loaded >> \o collected, final[i].k)[1]

\* C9 witness: a word of the loaded map also occurs in a source with another
\* example, and a word occurs in two sources with different examples.
C9_Witness ==
    /\ main_pc = "merged"
    /\ \E i \in 1..Len(collected) : \E w \in DictKeys(collected[i]) \cap DictKeys(loaded) :
          DictGet(collected[i], w)[1] # DictGet(loaded, w)[1]
    /\ \E i, j \in 1..Len(collected) : \E w \in DictKeys(collected[i]) \cap DictKeys(collected[j]) :
          /\ i < j
          /\ DictGet(collected[i], w)[1] # DictGet(collected[j], w)[1]

-----------------------------------------------------------------------------
-----------------------------------------------------------------------------
(* backend/main.py: log_suspect_words *)

\* Bounds: threads of the process serving requests, and calls made by one
\* thread.
NumThreads  == 2
MaxLogCalls == 1
Threads == 1..NumThreads

\* Words found in a text by the regex of line 157 (lower-cased).  "caj_d"
\* stands for a word holding one of the letters with diacritics of line 160,
\* "musim" is a word of SPECIFIC_DIACRITIC_MAP (lines 130-145).
LogWords == { "dom", "pes" }
AlreadyKnown == { "musim" }
WithDiacritics == { "caj_d" }
LogTexts ==
    { << >>, << "dom" >>, << "dom", "dom" >>, << "pes", "dom" >>,
      << "musim", "caj_d" >>, << "caj_d", "pes" >> }

\* Lines 152-162: the list `suspects` of a text.
Suspects(words) ==
    LET suspect(w) == w \notin WithDiacritics /\ w \notin AlreadyKnown
    IN  SelectSeq(words, suspect)

\* A dict word -> count; a word with count 0 is not a key.
EmptyDb == [ w \in LogWords |-> 0 ]
\* Lines 173-174.
RECURSIVE CountAll(_, _)
CountAll(db, suspects) ==
    IF suspects = << >> THEN db
    ELSE CountAll([ db EXCEPT ![Head(suspects)] = @ + 1 ], Tail(suspects))

\* The file: `ok` when its content is the JSON text of `db`.
FileOf(db) == [ ok |-> TRUE, db |-> db ]
Truncated == [ ok |-> FALSE, db |-> EmptyDb ]

\* Lines 166-172: the dict read from the file; {} when the file is absent or
\* json.load raises.
LoadDb(file) ==
    IF file = None THEN EmptyDb
    ELSE IF ~file[1].ok THEN EmptyDb
    ELSE file[1].db

IdleThread == [ pc |-> "idle", suspects |-> << >>, db |-> EmptyDb, calls |-> 0 ]

\* A request thread calls log_suspect_words(text, matches): lines 151-164.
\* With no suspect the call returns at line 164.
CallLog(t) ==
    /\ thr[t].pc = "idle"
    /\ thr[t].calls < MaxLogCalls
    /\ \E text \in LogTexts :
         LET suspects == Suspects(text)
         IN  /\ thr' = [ thr EXCEPT ![t].calls = @ + 1,
                                    ![t].suspects = suspects,
                                    ![t].pc = IF suspects = << >> THEN "idle" ELSE "lock" ]
             /\ log_hist' = [ log_hist EXCEPT !.total = CountAll(@, suspects) ]
    /\ UNCHANGED << collected_file, collected_lock, pipeVars, aggVars, buildVars,
                    mainVars, wikiVars >>

\* Variant that enters the block without waiting for the lock.
AcquireLock_nowait(t) ==
    /\ thr[t].pc = "lock"
    /\ collected_lock' = t
    /\ thr' = [ thr EXCEPT ![t].pc = "read" ]
    /\ UNCHANGED << collected_file, log_hist, pipeVars, aggVars, buildVars,
                    mainVars, wikiVars >>

\* Line 165: `with _collected_lock` is entered when the lock is free.
AcquireLock(t) ==
    /\ thr[t].pc = "lock"
    /\ collected_lock = 0
    /\ collected_lock' = t
    /\ thr' = [ thr EXCEPT ![t].pc = "read" ]
    /\ UNCHANGED << collected_file, log_hist, pipeVars, aggVars, buildVars,
                    mainVars, wikiVars >>

\* Lines 166-174: the file is read and the suspects are counted in `db`.
ReadAndCount(t) ==
    /\ thr[t].pc = "read"
    /\ thr' = [ thr EXCEPT ![t].db = CountAll(LoadDb(collected_file), thr[t].suspects),
                           ![t].pc = "open" ]
    /\ UNCHANGED << collected_file, collected_lock, log_hist, pipeVars, aggVars,
                    buildVars, mainVars, wikiVars >>

\* Line 175: open(..., "w") truncates the file.
OpenForWrite(t) ==
    /\ thr[t].pc = "open"
    /\ collected_file' = Some(Truncated)
    /\ thr' = [ thr EXCEPT ![t].pc = "dump" ]
    /\ UNCHANGED << collected_lock, log_hist, pipeVars, aggVars, buildVars,
                    mainVars, wikiVars >>

\* Line 176 and the end of the with blocks: the dict is written, the lock is
\* released, the call returns.
DumpAndRelease(t) ==
    /\ thr[t].pc = "dump"
    /\ collected_file' = Some(FileOf(thr[t].db))
    /\ collected_lock' = IF collected_lock = t THEN 0 ELSE collected_lock
    /\ thr' = [ thr EXCEPT ![t].pc = "idle", ![t].suspects = << >>, ![t].db = EmptyDb ]
    /\ UNCHANGED << log_hist, pipeVars, aggVars, buildVars, mainVars, wikiVars >>

\* json.dump raises (the disk is full): the with blocks release the lock, and
\* the except clause of lines 177-178 ends the call.
DumpFailsToWrite(t) ==
    /\ thr[t].pc = "dump"
    /\ collected_lock' = IF collected_lock = t THEN 0 ELSE collected_lock
    /\ thr' = [ thr EXCEPT ![t].pc = "idle", ![t].suspects = << >>, ![t].db = EmptyDb ]
    /\ log_hist' = [ log_hist EXCEPT !.erred = TRUE ]
    /\ UNCHANGED << collected_file, pipeVars, aggVars, buildVars, mainVars, wikiVars >>

\* The file a finished earlier call left behind.
SeedDb == [ w \in LogWords |-> IF w = "dom" THEN 2 ELSE 0 ]

InitLog ==
    /\ collected_file \in { None, Some(FileOf(SeedDb)) }
    /\ collected_lock = 0
    /\ thr = [ t \in Threads |-> IdleThread ]
    /\ log_hist = [ base |-> LoadDb(collected_file), total |-> EmptyDb, erred |-> FALSE ]
    /\ IdleAgg /\ IdleBuild /\ IdleMain /\ IdleWiki /\ IdlePipe
NextLog ==
    \E t \in Threads :
        \/ CallLog(t) \/ AcquireLock(t) \/ ReadAndCount(t) \/ OpenForWrite(t)
        \/ DumpAndRelease(t) \/ DumpFailsToWrite(t)
SpecLog == InitLog /\ [][NextLog]_vars

\* C29: once every call has returned and none has ended in an error, the
\* count stored for each word is its count before the calls plus the number
\* of its occurrences in the suspects of all the calls.
C29_NoLostUpdate ==
    ((\A t \in Threads : thr[t].pc = "idle") /\ ~log_hist.erred)
        => \A w \in LogWords :
              LoadDb(collected_file)[w] = log_hist.base[w] + log_hist.total[w]

\* C29 witness: the file existed, both threads have made their calls, all
\* have returned without error, and one word was counted three times or more.
C29_Witness ==
    /\ \A t \in Threads : thr[t].pc = "idle" /\ thr[t].calls = MaxLogCalls
    /\ ~log_hist.erred
    /\ log_hist.base["dom"] > 0
    /\ log_hist.total["dom"] >= 3
    /\ log_hist.total["pes"] >= 1

Init == InitAgg
Next == NextAgg
Spec == Init /\ [][Next]_vars
====
